---- MODULE Spec2Model ----
\* Model of the connection wrapper of runZeroInc/sockstats (src/wrap.go):
\* WrapConn / gatherAndReport / Close / Read / Write on one wrapped
\* connection.  The host makes up to MaxCalls Read/Write/Close calls, each on
\* a goroutine of its own, so calls may follow one another or overlap.
EXTENDS Integers, Sequences, FiniteSets, TLC

\* ---------------------------------------------------------------- bounds
MaxCalls == 2    \* Read/Write/Close calls the host makes on the connection
MaxN == 1        \* largest byte count one Read/Write returns
MaxInfo == 2     \* distinct contents a TCP_INFO snapshot can have
MaxVal == 2      \* largest multiplier of the numeric fields of a raw tcp_info
MaxConns == 2    \* connections the host opens

\* ---------------------------------------------------------------- constants
Opened == 0
Closed == 1

\* the host's calls, numbered in the order they start
Threads == 1..MaxCalls

\* error values seen by the wrapper.  "timeout" is a net.Error whose
\* Timeout() is true, "reset" and "closed" are net.Errors whose Timeout() is
\* false, "eof" is an error that is not a net.Error, "einval" is the plain
\* errno of a failed system call (syscall.Errno has Timeout() and Temporary(),
\* so it is a net.Error too; Timeout() is false for EINVAL).
NoErr == "nil"
IsNetError(e) == e \in {"timeout", "reset", "closed", "einval"}
Timeout(e) == e = "timeout"

\* a nil *tcpinfo.Info / *tcpinfo.SysInfo is the empty sequence, a non-nil
\* pointer a one-element sequence holding the pointed-to record
Nil == <<>>

VARIABLES
  supported,   \* tcpinfo.Supported() of the platform
  ncon,        \* the underlying net.Conn: [kind, closed]
  now,         \* the latest reading of time.Now().UnixNano()
  phase,       \* "init" before WrapConn, "wrapped" after it returned,
               \* "wrap_panicked" when WrapConn unwound with a panic
  w,           \* the Conn record
  pc,          \* per call: "idle" (not started), the position inside
               \* Read / Write / Close, "done"
  loc,         \* per call: locals n, err, tmp
  reports,     \* states the report callback was invoked with, in order
  acqLog,      \* the tcpinfo.GetTCPInfo calls made, in order: whether each
               \* returned a record
  twin,        \* snapshot fields of the same connection had it been wrapped
               \* with a non-nil callback and seen the same outcomes
  hist         \* bookkeeping about the calls made so far

vars == <<supported, ncon, now, phase, w, pc, loc, reports, acqLog, twin, hist>>

\* process-wide state of the Linux acquisition (pkg/linux/init.go) and the
\* latest call made on it
VARIABLES
  linuxKernelVersion,       \* <<Kernel, Major, Minor>>
  kernelVersionIsAtLeast,   \* the capability flags, by tier
  sizeOfRawTCPInfo,         \* bytes requested from getsockopt(TCP_INFO)
  out                       \* the latest call and what it returned

linVars == <<linuxKernelVersion, kernelVersionIsAtLeast, sizeOfRawTCPInfo, out>>

\* the collector (pkg/exporter/exporter.go) and the host's sockets
VARIABLES
  conns,       \* t.conns: connection -> connEntry [fd, labels]
  mu,          \* t.mu: "free", or "Collect" while a Collect holds it
  todo,        \* the entries the range loop of the running Collect has
               \* still to visit
  metrics,     \* the sends of the running Collect on the metrics channel
  logged,      \* the connections the running Collect called t.logger for
  fdtab,       \* descriptor -> the connection whose socket it is, 0 if free
  born,        \* the connections the host has opened so far
  reg,         \* per connection: what was done last to its registration
               \* (Add with which labels, Remove, eviction by Collect)
  pull         \* the running Collect: the registry when it began and the
               \* acquisitions it made, in order

expVars == <<conns, mu, todo, metrics, logged, fdtab, born, reg, pull>>

allVars == <<vars, linVars, expVars>>

ZeroConn ==
  [ reportStats |-> "nil", OpenedAt |-> 0, ClosedAt |-> 0,
    FirstRxAt |-> 0, FirstTxAt |-> 0, LastRxAt |-> 0, LastTxAt |-> 0,
    TxBytes |-> 0, RxBytes |-> 0, RxErr |-> NoErr, TxErr |-> NoErr,
    InfoErr |-> NoErr, OpenedInfo |-> Nil, ClosedInfo |-> Nil,
    supportsTCPInfo |-> FALSE ]

ZeroLoc == [n |-> 0, err |-> NoErr, tmp |-> 0]

ZeroTwin == [OpenedInfo |-> Nil, ClosedInfo |-> Nil, InfoErr |-> NoErr]

ZeroHist ==
  [ overlapped |-> FALSE,   \* some call started while another was running
    rxSum |-> 0,            \* sum of n over the Read calls that returned
    txSum |-> 0,            \* sum of n over the Write calls that returned
    closeStarted |-> 0,     \* Close calls started
    closeDone |-> 0,        \* Close calls finished (returned or panicked)
    lateXfer |-> FALSE,     \* a transfer was stamped after a Close had begun
    lastClose |-> [called |-> FALSE, same |-> TRUE],
                            \* the Close call that finished last: whether it
                            \* called the underlying Close and whether it
                            \* returned what the underlying Close returned
    seen |-> <<>> ]         \* what the callback found at its latest
                            \* invocation, see Seen

\* ---------------------------------------------------------------- pkg/linux/init.go
\* kernel.VersionInfo{Kernel, Major, Minor} is the tuple <<Kernel, Major, Minor>>
\* kernel.CompareKernelVersion: -1, 0 or 1, comparing Kernel, then Major,
\* then Minor
CompareKernelVersion(a, b) ==
  IF a[1] < b[1] THEN -1 ELSE IF a[1] > b[1] THEN 1
  ELSE IF a[2] < b[2] THEN -1 ELSE IF a[2] > b[2] THEN 1
  ELSE IF a[3] < b[3] THEN -1 ELSE IF a[3] > b[3] THEN 1
  ELSE 0

\* tcpInfoSizes, lowest tier first; Flag names the kernelVersionIsAtLeast_*
\* variable the entry points to
tcpInfoSizes ==
  << [Version |-> <<2, 6, 2>>,  Size |-> 104, Flag |-> "2_6_2"],
     [Version |-> <<3, 15, 0>>, Size |-> 120, Flag |-> "3_15"],
     [Version |-> <<4, 1, 0>>,  Size |-> 136, Flag |-> "4_1"],
     [Version |-> <<4, 2, 0>>,  Size |-> 144, Flag |-> "4_2"],
     [Version |-> <<4, 6, 0>>,  Size |-> 160, Flag |-> "4_6"],
     [Version |-> <<4, 9, 0>>,  Size |-> 148, Flag |-> "4_9"],
     [Version |-> <<4, 10, 0>>, Size |-> 192, Flag |-> "4_10"],
     [Version |-> <<4, 18, 0>>, Size |-> 200, Flag |-> "4_18"],
     [Version |-> <<4, 19, 0>>, Size |-> 224, Flag |-> "4_19"],
     [Version |-> <<5, 4, 0>>,  Size |-> 232, Flag |-> "5_4"],
     [Version |-> <<5, 5, 0>>,  Size |-> 232, Flag |-> "5_5"],
     [Version |-> <<6, 2, 0>>,  Size |-> 240, Flag |-> "6_2"],
     [Version |-> <<6, 7, 0>>,  Size |-> 248, Flag |-> "6_7"] >>

TierNames == {tcpInfoSizes[i].Flag : i \in 1..Len(tcpInfoSizes)}

\* the flags as declared (lines 27-41): all false
NoFlags == [f \in TierNames |-> FALSE]

\* the kernels the model runs on: every tier's first version, versions
\* between tiers, and versions older than the first tier
KernelVersions ==
  {tcpInfoSizes[i].Version : i \in 1..Len(tcpInfoSizes)}
    \cup {<<2, 4, 20>>, <<2, 6, 1>>, <<2, 6, 32>>, <<3, 10, 0>>, <<4, 8, 17>>,
          <<4, 9, 1>>, <<5, 4, 1>>, <<5, 10, 0>>, <<6, 1, 0>>, <<6, 6, 9>>,
          <<6, 8, 0>>, <<7, 0, 0>>}

\* adaptToKernelVersion, from entry i downwards: the first entry the kernel
\* meets sets the size and raises its own and every lower flag; an entry the
\* kernel does not meet has its flag cleared
RECURSIVE adaptFrom(_, _, _, _)
adaptFrom(i, v, flags, size) ==
  IF i = 0 THEN [flags |-> flags, size |-> size]
  ELSE IF CompareKernelVersion(v, tcpInfoSizes[i].Version) >= 0
       THEN [flags |-> [f \in TierNames |->
                          IF \E j \in 1..i : tcpInfoSizes[j].Flag = f THEN TRUE ELSE flags[f]],
             size |-> tcpInfoSizes[i].Size]
  ELSE adaptFrom(i - 1, v, [flags EXCEPT ![tcpInfoSizes[i].Flag] = FALSE], size)

\* adaptToKernelVersion without the else branch that clears a flag
adaptToKernelVersion_KeepsFlags(v, flags, size) ==
  LET a == adaptFrom(Len(tcpInfoSizes), v, flags, size)
  IN [flags |-> [f \in TierNames |-> a.flags[f] \/ flags[f]], size |-> a.size]

adaptToKernelVersion(v, flags, size) == adaptFrom(Len(tcpInfoSizes), v, flags, size)

\* the collector, the wrapper and the Linux acquisition when nothing has
\* happened on them
LinuxAtRest ==
  /\ linuxKernelVersion = <<0, 0, 0>>
  /\ kernelVersionIsAtLeast = NoFlags
  /\ sizeOfRawTCPInfo = 0
  /\ out = [op |-> "none"]

\* ---------------------------------------------------------------- pkg/tcpinfo/tcpinfo_linux.go
\* tcpStateMap[state]: the name of a listed state; a Go map gives the zero
\* string for a key it does not hold
tcpStateNames ==
  << "ESTABLISHED", "SYN_SENT", "SYN_RECV", "FIN_WAIT1", "FIN_WAIT2", "TIME_WAIT",
     "CLOSE", "CLOSE_WAIT", "LAST_ACK", "LISTEN", "CLOSING" >>

tcpStateMap(state) ==
  IF state \in 1..Len(tcpStateNames) THEN tcpStateNames[state] ELSE ""

\* the nullable fields of SysInfo that Unpack copies from one field of
\* RawTCPInfo: the raw field, the flag of the if-block that copies it, and
\* whether the value is a time.Duration (microseconds turned to nanoseconds)
NullableFields ==
  << [name |-> "PacingRate",         raw |-> "pacing_rate",          flag |-> "3_15", dur |-> FALSE],
     [name |-> "MaxPacingRate",      raw |-> "max_pacing_rate",      flag |-> "3_15", dur |-> FALSE],
     [name |-> "BytesAcked",         raw |-> "bytes_acked",          flag |-> "4_1",  dur |-> FALSE],
     [name |-> "BytesReceived",      raw |-> "bytes_received",       flag |-> "4_1",  dur |-> FALSE],
     [name |-> "SegsOut",            raw |-> "segs_out",             flag |-> "4_2",  dur |-> FALSE],
     [name |-> "SegsIn",             raw |-> "segs_in",              flag |-> "4_2",  dur |-> FALSE],
     [name |-> "NotSentBytes",       raw |-> "notsent_bytes",        flag |-> "4_6",  dur |-> FALSE],
     [name |-> "MinRTT",             raw |-> "min_rtt",              flag |-> "4_6",  dur |-> TRUE],
     [name |-> "DataSegsIn",         raw |-> "data_segs_in",         flag |-> "4_6",  dur |-> FALSE],
     [name |-> "DataSegsOut",        raw |-> "data_segs_out",        flag |-> "4_6",  dur |-> FALSE],
     [name |-> "DeliveryRate",       raw |-> "delivery_rate",        flag |-> "4_9",  dur |-> FALSE],
     [name |-> "BusyTime",           raw |-> "busy_time",            flag |-> "4_10", dur |-> FALSE],
     [name |-> "RxWindowLimited",    raw |-> "rwnd_limited",         flag |-> "4_10", dur |-> FALSE],
     [name |-> "TxBufferLimited",    raw |-> "sndbuf_limited",       flag |-> "4_10", dur |-> FALSE],
     [name |-> "Delivered",          raw |-> "delivered",            flag |-> "4_18", dur |-> FALSE],
     [name |-> "DeliveredCE",        raw |-> "delivered_ce",         flag |-> "4_18", dur |-> FALSE],
     [name |-> "BytesSent",          raw |-> "bytes_sent",           flag |-> "4_19", dur |-> FALSE],
     [name |-> "BytesRetrans",       raw |-> "bytes_retrans",        flag |-> "4_19", dur |-> FALSE],
     [name |-> "DSACKDups",          raw |-> "dsack_dups",           flag |-> "4_19", dur |-> FALSE],
     [name |-> "ReordSeen",          raw |-> "reord_seen",           flag |-> "4_19", dur |-> FALSE],
     [name |-> "RxOutOfOrder",       raw |-> "rcv_ooopack",          flag |-> "5_4",  dur |-> FALSE],
     [name |-> "TxWindow",           raw |-> "snd_wnd",              flag |-> "5_4",  dur |-> FALSE],
     [name |-> "RxWindow",           raw |-> "rcv_wnd",              flag |-> "6_2",  dur |-> FALSE],
     [name |-> "Rehash",             raw |-> "rehash",               flag |-> "6_2",  dur |-> FALSE],
     [name |-> "TotalRTO",           raw |-> "total_rto",            flag |-> "6_2",  dur |-> FALSE],
     [name |-> "TotalRTORecoveries", raw |-> "total_rto_recoveries", flag |-> "6_2",  dur |-> FALSE],
     [name |-> "TotalRTOTime",       raw |-> "total_rto_time",       flag |-> "6_2",  dur |-> FALSE] >>

NullableNames == {NullableFields[i].name : i \in 1..Len(NullableFields)}
RawNames == {NullableFields[i].raw : i \in 1..Len(NullableFields)}
FieldOf(name) == NullableFields[CHOOSE i \in 1..Len(NullableFields) : NullableFields[i].name = name]

\* time.Duration(x) * timeFieldMultiplier, in nanoseconds
Micros(x) == x * 1000

\* the congestion-control extension fields of SysInfo, by algorithm, with the
\* field of the unix.TCP*Info block each is copied from
CCFields ==
  << [name |-> "CCVegasEnabled",   alg |-> "vegas", from |-> "Enabled",     kind |-> "num"],
     [name |-> "CCVegasRTTCnt",    alg |-> "vegas", from |-> "Rttcnt",      kind |-> "num"],
     [name |-> "CCVegasRTTMin",    alg |-> "vegas", from |-> "Minrtt",      kind |-> "dur"],
     [name |-> "CCVegasRTT",       alg |-> "vegas", from |-> "Rtt",         kind |-> "dur"],
     [name |-> "CCBBRBwHi",        alg |-> "bbr",   from |-> "Bw_hi",       kind |-> "num"],
     [name |-> "CCBBRBwLo",        alg |-> "bbr",   from |-> "Bw_lo",       kind |-> "num"],
     [name |-> "CCBBRMinRTT",      alg |-> "bbr",   from |-> "Min_rtt",     kind |-> "dur"],
     [name |-> "CCBBRPacingGain",  alg |-> "bbr",   from |-> "Pacing_gain", kind |-> "num"],
     [name |-> "CCBBRCWindowGain", alg |-> "bbr",   from |-> "Cwnd_gain",   kind |-> "num"],
     [name |-> "CCDCTCPEnabled",   alg |-> "dctcp", from |-> "Enabled",     kind |-> "bool"],
     [name |-> "CCDCTCPCEState",   alg |-> "dctcp", from |-> "Ce_state",    kind |-> "num"],
     [name |-> "CCDCTCPAlpha",     alg |-> "dctcp", from |-> "Alpha",       kind |-> "num"],
     [name |-> "CCDCTCPABECN",     alg |-> "dctcp", from |-> "Ab_ecn",      kind |-> "num"],
     [name |-> "CCDCTCPABTOT",     alg |-> "dctcp", from |-> "Ab_tot",      kind |-> "num"] >>

CCNames == {CCFields[i].name : i \in 1..Len(CCFields)}
CCFieldOf(name) == CCFields[CHOOSE i \in 1..Len(CCFields) : CCFields[i].name = name]
CCZero(name) ==
  [Valid |-> FALSE, Value |-> IF CCFieldOf(name).kind = "bool" THEN FALSE ELSE 0]

\* TCP option flags (tcpinfo_linux.go 605-615), their names and the order
\* Unpack walks them in
TCPI_OPT_WSCALE == 4

tcpOptions == <<1, 2, 4, 8, 16, 32, 64, 128>>

tcpOptionsMap(flag) ==
  CASE flag = 1 -> "Timestamps" [] flag = 2 -> "SACK" [] flag = 4 -> "WindowScale"
    [] flag = 8 -> "ECN" [] flag = 16 -> "ECNSeen" [] flag = 32 -> "SYNData"
    [] flag = 64 -> "UsecTS" [] flag = 128 -> "TFOChild"

\* the option loop with no payload on the window-scale entry
Options_NoPayload(packed, side) ==
  LET set == SelectSeq(tcpOptions, LAMBDA flag : (packed.options \div flag) % 2 = 1)
  IN [i \in 1..Len(set) |-> [Kind |-> tcpOptionsMap(set[i]), Value |-> 0]]

\* the option loop of Unpack (lines 531-544) for one side, "Tx" or "Rx": an
\* entry for every flag of tcpOptions that is set in packed.options, in the
\* order of tcpOptions; the window-scale entry carries snd_wnd on the
\* transmit side and rcv_wnd on the receive side, every other entry 0
Options(packed, side) ==
  LET set == SelectSeq(tcpOptions, LAMBDA flag : (packed.options \div flag) % 2 = 1)
  IN [i \in 1..Len(set) |->
        [Kind |-> tcpOptionsMap(set[i]),
         Value |-> IF set[i] = TCPI_OPT_WSCALE
                   THEN IF side = "Tx" THEN packed.v["snd_wnd"] ELSE packed.v["rcv_wnd"]
                   ELSE 0]]

\* (*RawTCPInfo).Unpack under the capability flags: the fields the claims
\* are about (state, window scales, the two bit-field flags, one plain
\* duration, every nullable field, the options)
Unpack(packed, flags) ==
  [ State |-> packed.state,
    StateName |-> tcpStateMap(packed.state),
    TxWindowScale |-> packed.bitfield0 % 16,
    RxWindowScale |-> packed.bitfield0 \div 16,
    DeliveryRateAppLimited |->
      IF flags["4_9"] THEN [Valid |-> TRUE, Value |-> (packed.bitfield1 % 2) = 1]
      ELSE [Valid |-> FALSE, Value |-> FALSE],
    FastOpenClientFail |->
      IF flags["5_5"] THEN [Valid |-> TRUE, Value |-> (packed.bitfield1 \div 2) % 4]
      ELSE [Valid |-> FALSE, Value |-> 0],
    RTT |-> Micros(packed.rtt),
    TxOptions |-> Options(packed, "Tx"),
    RxOptions |-> Options(packed, "Rx"),
    N |-> [nm \in NullableNames |->
             LET e == FieldOf(nm)
             IN IF flags[e.flag]
                THEN [Valid |-> TRUE,
                      Value |-> IF e.dur THEN Micros(packed.v[e.raw]) ELSE packed.v[e.raw]]
                ELSE [Valid |-> FALSE, Value |-> 0]],
    CCAlgorithm |-> "",
    CC |-> [nm \in CCNames |-> CCZero(nm)] ]

\* (*TCPInfoPlusCC).Unpack: t = [TCPInfo, CCAlg, CCVegas, CCBBR, CCDCTP], the
\* last three nil or a pointer to the algorithm's block
CCBlock(t, alg) ==
  IF alg = "vegas" THEN t.CCVegas ELSE IF alg = "bbr" THEN t.CCBBR ELSE t.CCDCTP

PlusCCUnpack(t, flags) ==
  LET sysInfo == [Unpack(t.TCPInfo, flags) EXCEPT !.CCAlgorithm = t.CCAlg]
      has(alg) == t.CCAlg = alg /\ CCBlock(t, alg) # Nil
      val(e) == LET x == CCBlock(t, e.alg)[1][e.from]
                IN IF e.kind = "dur" THEN Micros(x)
                   ELSE IF e.kind = "bool" THEN x # 0 ELSE x
  IN [sysInfo EXCEPT !.CC =
        [nm \in CCNames |->
           LET e == CCFieldOf(nm)
           IN IF has(e.alg) THEN [Valid |-> TRUE, Value |-> val(e)] ELSE CCZero(nm)]]

\* the package's EAGAIN, EINVAL and ENOENT are the syscall errnos of the
\* same name; any other errno is returned as it is
RawErr(errNo) ==
  IF errNo = "EAGAIN" THEN "EAGAIN"
  ELSE IF errNo = "EINVAL" THEN "EINVAL"
  ELSE IF errNo = "ENOENT" THEN "ENOENT"
  ELSE errNo

\* GetRawTCPInfo (tcpinfo_linux_others.go): getsockopt(TCP_INFO) asking for
\* size bytes, where kern is what the kernel answers: [raw, errNo]
GetRawTCPInfo(kern, size) ==
  IF kern.errNo # NoErr THEN [len |-> size, raw |-> Nil, err |-> RawErr(kern.errNo)]
  ELSE [len |-> size, raw |-> <<kern.raw>>, err |-> NoErr]

CCAlgsWithInfo == {"vegas", "bbr", "dctcp"}

\* GetTCPInfo (tcpinfo_linux.go): kern is the kernel's answer to TCP_INFO,
\* alg = [name, err] the answer to TCP_CONGESTION, cc = [info, err] the answer
\* to TCP_CC_INFO.  Result: the record (nil or a pointer), the error, and the
\* length asked of the kernel (0 when the kernel was not asked).
GetTCPInfo(flags, size, kern, alg, cc) ==
  IF ~flags["2_6_2"] THEN [sys |-> Nil, err |-> "ErrKernelTooOld", len |-> 0]
  ELSE
    LET r == GetRawTCPInfo(kern, size)
    IN IF r.err # NoErr THEN [sys |-> Nil, err |-> r.err, len |-> r.len]
       ELSE
         LET res0 == [TCPInfo |-> r.raw[1], CCAlg |-> "", CCVegas |-> Nil,
                      CCBBR |-> Nil, CCDCTP |-> Nil]
             res1 == [res0 EXCEPT !.CCAlg = alg.name]
             res2 == IF alg.name = "vegas" THEN [res1 EXCEPT !.CCVegas = cc.info]
                     ELSE IF alg.name = "bbr" THEN [res1 EXCEPT !.CCBBR = cc.info]
                     ELSE [res1 EXCEPT !.CCDCTP = cc.info]
         IN IF alg.err # NoErr
            THEN [sys |-> <<PlusCCUnpack(res0, flags)>>, err |-> alg.err, len |-> r.len]
            ELSE IF alg.name \in CCAlgsWithInfo
                 THEN IF cc.err # NoErr
                      THEN [sys |-> <<PlusCCUnpack(res1, flags)>>, err |-> cc.err, len |-> r.len]
                      ELSE [sys |-> <<PlusCCUnpack(res2, flags)>>, err |-> NoErr, len |-> r.len]
            ELSE [sys |-> <<PlusCCUnpack(res1, flags)>>, err |-> NoErr, len |-> r.len]

\* ---- the values the kernel can hand back
Byte == 0..255

RawIndex(r) == CHOOSE i \in 1..Len(NullableFields) : NullableFields[i].raw = r

\* a RawTCPInfo with the given state and bit-field bytes whose numeric
\* fields are multiples of x, a different one for every field
Raw(state, b0, b1, x) ==
  [ state |-> state, options |-> 0, bitfield0 |-> b0, bitfield1 |-> b1, rtt |-> x,
    v |-> [r \in RawNames |-> x * RawIndex(r)] ]

\* every state byte up to one past the last state of net/tcp_states.h,
\* every window-scale byte, every delivery-rate/fast-open byte, every
\* options byte
RawInputs ==
  {Raw(s, 131, 5, x) : s \in 0..13, x \in 0..MaxVal}
    \cup {Raw(1, b, 0, 1) : b \in Byte}
    \cup {Raw(1, 0, b, 1) : b \in Byte}
    \cup {[Raw(1, 0, 0, 1) EXCEPT !.options = b] : b \in Byte}

KernelAnswers ==
  {[raw |-> Raw(1, 131, 5, x), errNo |-> NoErr] : x \in 1..MaxVal}
    \cup {[raw |-> Nil, errNo |-> e] : e \in {"EAGAIN", "EINVAL", "ENOENT", "EBADF"}}

AlgAnswers ==
  {[name |-> a, err |-> NoErr] : a \in {"cubic", "vegas", "bbr", "dctcp"}}
    \cup {[name |-> "", err |-> "ENOPROTOOPT"]}

CCBlockOf(y) ==
  [ Enabled |-> y, Rttcnt |-> 2 * y, Minrtt |-> 3 * y, Rtt |-> 4 * y,
    Bw_hi |-> 5 * y, Bw_lo |-> 6 * y, Min_rtt |-> 7 * y, Pacing_gain |-> 8 * y,
    Cwnd_gain |-> 9 * y, Ce_state |-> 10 * y, Alpha |-> 11 * y,
    Ab_ecn |-> 12 * y, Ab_tot |-> 13 * y ]

CCAnswers ==
  {[info |-> <<CCBlockOf(y)>>, err |-> NoErr] : y \in 0..1}
    \cup {[info |-> Nil, err |-> "EINVAL"]}


\* ---------------------------------------------------------------- pkg/linux/tcpinfo.go
\* the nullable fields of linux.TCPInfo that Unpack copies from one field of
\* RawTCPInfo, with the flag of the if-block that copies them
LinuxNullableFields ==
  << [name |-> "PacingRate",         raw |-> "pacing_rate",          flag |-> "3_15"],
     [name |-> "MaxPacingRate",      raw |-> "max_pacing_rate",      flag |-> "3_15"],
     [name |-> "BytesAcked",         raw |-> "bytes_acked",          flag |-> "4_1"],
     [name |-> "BytesReceived",      raw |-> "bytes_received",       flag |-> "4_1"],
     [name |-> "SegsOut",            raw |-> "segs_out",             flag |-> "4_2"],
     [name |-> "SegsIn",             raw |-> "segs_in",              flag |-> "4_2"],
     [name |-> "NotsentBytes",       raw |-> "notsent_bytes",        flag |-> "4_6"],
     [name |-> "MinRTT",             raw |-> "min_rtt",              flag |-> "4_6"],
     [name |-> "DataSegsIn",         raw |-> "data_segs_in",         flag |-> "4_6"],
     [name |-> "DataSegsOut",        raw |-> "data_segs_out",        flag |-> "4_6"],
     [name |-> "DeliveryRate",       raw |-> "delivery_rate",        flag |-> "4_9"],
     [name |-> "BusyTime",           raw |-> "busy_time",            flag |-> "4_10"],
     [name |-> "RwndLimited",        raw |-> "rwnd_limited",         flag |-> "4_10"],
     [name |-> "SndbufLimited",      raw |-> "sndbuf_limited",       flag |-> "4_10"],
     [name |-> "Delivered",          raw |-> "delivered",            flag |-> "4_18"],
     [name |-> "DeliveredCE",        raw |-> "delivered_ce",         flag |-> "4_18"],
     [name |-> "BytesSent",          raw |-> "bytes_sent",           flag |-> "4_19"],
     [name |-> "BytesRetrans",       raw |-> "bytes_retrans",        flag |-> "4_19"],
     [name |-> "DSACKDups",          raw |-> "dsack_dups",           flag |-> "4_19"],
     [name |-> "ReordSeen",          raw |-> "reord_seen",           flag |-> "4_19"],
     [name |-> "RcvOOOPack",         raw |-> "rcv_ooopack",          flag |-> "5_4"],
     [name |-> "SndWnd",             raw |-> "snd_wnd",              flag |-> "5_4"],
     [name |-> "RcvWnd",             raw |-> "rcv_wnd",              flag |-> "6_2"],
     [name |-> "Rehash",             raw |-> "rehash",               flag |-> "6_2"],
     [name |-> "TotalRTO",           raw |-> "total_rto",            flag |-> "6_2"],
     [name |-> "TotalRTORecoveries", raw |-> "total_rto_recoveries", flag |-> "6_2"],
     [name |-> "TotalRTOTime",       raw |-> "total_rto_time",       flag |-> "6_2"] >>

\* (*RawTCPInfo).Unpack of package linux: every field is a record
\* [Valid, Value]; a field that is not nullable is always valid.  The bool of
\* DeliveryRateAppLimited is kept as 0 or 1.
LinuxUnpack(packed, flags) ==
  LET plain(x) == [Valid |-> TRUE, Value |-> x]
      null == [Valid |-> FALSE, Value |-> 0]
      e(nm) == LinuxNullableFields[
                  CHOOSE i \in 1..Len(LinuxNullableFields) : LinuxNullableFields[i].name = nm]
  IN [nm \in {"State", "SndWScale", "RcvWScale", "RTT", "DeliveryRateAppLimited",
              "FastOpenClientFail"}
             \cup {LinuxNullableFields[i].name : i \in 1..Len(LinuxNullableFields)} |->
        IF nm = "State" THEN plain(packed.state)
        ELSE IF nm = "SndWScale" THEN plain(packed.bitfield0 % 16)
        ELSE IF nm = "RcvWScale" THEN plain(packed.bitfield0 \div 16)
        ELSE IF nm = "RTT" THEN plain(packed.rtt)
        ELSE IF nm = "DeliveryRateAppLimited"
             THEN IF flags["4_9"] THEN plain(packed.bitfield1 % 2) ELSE null
        ELSE IF nm = "FastOpenClientFail"
             THEN IF flags["5_5"] THEN plain((packed.bitfield1 \div 2) % 4) ELSE null
        ELSE IF flags[e(nm).flag] THEN plain(packed.v[e(nm).raw]) ELSE null]

\* GetTCPInfo of package linux: kern is the kernel's answer [raw, errNo]
LinuxGetTCPInfo(flags, size, kern) ==
  IF ~flags["2_6_2"] THEN [info |-> Nil, err |-> "ErrKernelTooOld"]
  ELSE IF kern.errNo # NoErr THEN [info |-> Nil, err |-> RawErr(kern.errNo)]
  ELSE [info |-> <<LinuxUnpack(kern.raw, flags)>>, err |-> NoErr]

\* ---------------------------------------------------------------- pkg/exporter/exporter.go
\* the connections the host can open and the descriptors the system hands out
ConnIds == 1..MaxConns
Fds == 1..MaxConns
LabelValues == {<<"a">>, <<"b">>}

\* t.infos, in the order of the fields of linux.TCPInfo (the generator makes
\* one Metric per tagged field and marks the Nullable* ones)
Infos ==
  << [FieldName |-> "State", IsNullable |-> FALSE],
     [FieldName |-> "SndWScale", IsNullable |-> FALSE],
     [FieldName |-> "RcvWScale", IsNullable |-> FALSE],
     [FieldName |-> "DeliveryRateAppLimited", IsNullable |-> TRUE],
     [FieldName |-> "FastOpenClientFail", IsNullable |-> TRUE],
     [FieldName |-> "RTT", IsNullable |-> FALSE] >>
   \o [i \in 1..Len(LinuxNullableFields) |->
         [FieldName |-> LinuxNullableFields[i].name, IsNullable |-> TRUE]]

\* a supplier that makes a sample of a nullable field whether it is valid or not
supplier_IgnoresValid(info, tcpInfo, labelValues) ==
  <<[metric |-> info.FieldName, labels |-> labelValues,
     value |-> tcpInfo[info.FieldName].Value]>>

\* info.supplier(tcpInfo, labelValues): the sample of the metric for this
\* record, none (nil) for a nullable field that is not valid
supplier(info, tcpInfo, labelValues) ==
  IF info.IsNullable /\ ~tcpInfo[info.FieldName].Valid THEN Nil
  ELSE <<[metric |-> info.FieldName, labels |-> labelValues,
          value |-> tcpInfo[info.FieldName].Value]>>

\* netfd.GetFdFromConn(conn): the descriptor of the connection's socket; 0
\* stands for the descriptor of a connection that has been closed
GetFdFromConn(c) ==
  IF \E f \in Fds : fdtab[f] = c THEN CHOOSE f \in Fds : fdtab[f] = c ELSE 0

\* the connection whose socket is on descriptor fd now, 0 if there is none
SocketOn(fd) == IF fd \in Fds THEN fdtab[fd] ELSE 0

\* what the kernel answers to TCP_INFO on descriptor fd: the tcp_info of the
\* socket that is on fd now, EBADF if there is none
KernelOn(fd) ==
  IF fd \in Fds /\ fdtab[fd] # 0
  THEN [raw |-> Raw(1, 131, 5, fdtab[fd]), errNo |-> NoErr]
  ELSE [raw |-> Nil, errNo |-> "EBADF"]

ExporterAtRest ==
  /\ conns = <<>>
  /\ mu = "free"
  /\ todo = {}
  /\ metrics = <<>>
  /\ logged = <<>>
  /\ fdtab = [f \in Fds |-> 0]
  /\ born = {}
  /\ reg = [c \in ConnIds |-> [state |-> "never", labels |-> <<>>]]
  /\ pull = [began |-> <<>>, acq |-> <<>>]

WrapperAtRest ==
  /\ supported = FALSE
  /\ ncon = [kind |-> "pipe", closed |-> FALSE]
  /\ now = 1
  /\ phase = "init"
  /\ w = ZeroConn
  /\ pc = [t \in Threads |-> "idle"]
  /\ loc = [t \in Threads |-> ZeroLoc]
  /\ reports = <<>>
  /\ acqLog = <<>>
  /\ twin = ZeroTwin
  /\ hist = ZeroHist

\* delete(m, k) of a Go map: nothing happens when k is not a key
delete(m, k) == [x \in (DOMAIN m) \ {k} |-> m[x]]

\* m[k] = v of a Go map
store(m, k, v) == [x \in (DOMAIN m) \cup {k} |-> IF x = k THEN v ELSE m[x]]

\* the kernels the collector is run on: older than the first tier, one in
\* the middle of the ladder, one newer than the last tier
ExporterKernels == {<<2, 6, 1>>, <<4, 9, 0>>, <<6, 8, 0>>}

InitExporter ==
  /\ WrapperAtRest
  /\ \E v \in ExporterKernels :
        LET a == adaptToKernelVersion(v, NoFlags, 0)
        IN /\ linuxKernelVersion = v
           /\ kernelVersionIsAtLeast = a.flags
           /\ sizeOfRawTCPInfo = a.size
  /\ out = [op |-> "none"]
  /\ ExporterAtRest

\* ---- the host: it opens connections, one after the other (a new socket
\* gets the lowest descriptor that is free), and closes them, registered or not
HostOpen(c) ==
  /\ c \in ConnIds \ born
  /\ c > 1 => (c - 1) \in born
  /\ LET f == CHOOSE g \in Fds : fdtab[g] = 0 /\ \A h \in 1..(g - 1) : fdtab[h] # 0
     IN fdtab' = [fdtab EXCEPT ![f] = c]
  /\ born' = born \cup {c}
  /\ UNCHANGED <<vars, linVars, conns, mu, todo, metrics, logged, reg, pull>>

HostClose(c) ==
  /\ \E f \in Fds : fdtab[f] = c
  /\ fdtab' = [f \in Fds |-> IF fdtab[f] = c THEN 0 ELSE fdtab[f]]
  /\ UNCHANGED <<vars, linVars, conns, mu, todo, metrics, logged, born, reg, pull>>

\* ---- Add that leaves an existing entry of the connection as it is
Add_KeepsExisting(c, labels) ==
  /\ mu = "free"
  /\ c \in born
  /\ conns' = IF c \in DOMAIN conns THEN conns
              ELSE store(conns, c, [fd |-> GetFdFromConn(c), labels |-> labels])
  /\ reg' = [reg EXCEPT ![c] = [state |-> "added", labels |-> labels]]
  /\ UNCHANGED <<vars, linVars, mu, todo, metrics, logged, fdtab, born, pull>>

\* Add that does not take the mutex
Add_NoLock(c, labels) ==
  /\ c \in born
  /\ conns' = store(conns, c, [fd |-> GetFdFromConn(c), labels |-> labels])
  /\ reg' = [reg EXCEPT ![c] = [state |-> "added", labels |-> labels]]
  /\ UNCHANGED <<vars, linVars, mu, todo, metrics, logged, fdtab, born, pull>>

\* Add(conn, labels), lines 62-70, under the mutex
Add(c, labels) ==
  /\ mu = "free"
  /\ c \in born
  /\ conns' = store(conns, c, [fd |-> GetFdFromConn(c), labels |-> labels])
  /\ reg' = [reg EXCEPT ![c] = [state |-> "added", labels |-> labels]]
  /\ UNCHANGED <<vars, linVars, mu, todo, metrics, logged, fdtab, born, pull>>

\* Remove(conn), lines 72-77, under the mutex
Remove(c) ==
  /\ mu = "free"
  /\ c \in born
  /\ conns' = delete(conns, c)
  /\ reg' = [reg EXCEPT ![c].state = IF @ = "never" THEN @ ELSE "removed"]
  /\ UNCHANGED <<vars, linVars, mu, todo, metrics, logged, fdtab, born, pull>>

\* ---- Collect, lines 43-60
\* lines 44-47: the mutex is taken and the range over t.conns begins
CollectLock ==
  /\ mu = "free"
  /\ mu' = "Collect"
  /\ todo' = DOMAIN conns
  /\ metrics' = <<>>
  /\ logged' = <<>>
  /\ pull' = [began |-> conns, acq |-> <<>>]
  /\ UNCHANGED <<vars, linVars, conns, fdtab, born, reg>>

\* the sends of lines 56-58 for entry c and its record: for every info, in
\* order, what info.supplier returned for the entry's labels
Sends(c, entry, tcpInfo) ==
  [i \in 1..Len(Infos) |->
     [for |-> c, metric |-> Infos[i].FieldName, labels |-> entry.labels,
      sample |-> supplier(Infos[i], tcpInfo, entry.labels)]]

\* one turn of the loop that ends the loop when the acquisition fails
CollectEntry_StopsOnFailure(c) ==
  /\ mu = "Collect"
  /\ c \in todo
  /\ LET entry == conns[c]
         r == LinuxGetTCPInfo(kernelVersionIsAtLeast, sizeOfRawTCPInfo, KernelOn(entry.fd))
     IN /\ pull' = [pull EXCEPT !.acq = Append(@, [conn |-> c, socket |-> SocketOn(entry.fd),
                                                  info |-> r.info, err |-> r.err])]
        /\ IF r.err # NoErr
           THEN /\ logged' = Append(logged, c)
                /\ conns' = delete(conns, c)
                /\ reg' = [reg EXCEPT ![c].state = "evicted"]
                /\ todo' = {}
                /\ UNCHANGED metrics
           ELSE /\ metrics' = metrics \o Sends(c, entry, r.info[1])
                /\ todo' = todo \ {c}
                /\ UNCHANGED <<logged, conns, reg>>
  /\ UNCHANGED <<vars, linVars, mu, fdtab, born>>

\* lines 47-59: one turn of the loop, for an entry not visited yet (a Go map
\* is ranged over in no particular order)
CollectEntry(c) ==
  /\ mu = "Collect"
  /\ c \in todo
  /\ LET entry == conns[c]
         r == LinuxGetTCPInfo(kernelVersionIsAtLeast, sizeOfRawTCPInfo, KernelOn(entry.fd))
     IN /\ pull' = [pull EXCEPT !.acq = Append(@, [conn |-> c, socket |-> SocketOn(entry.fd),
                                                  info |-> r.info, err |-> r.err])]
        /\ IF r.err # NoErr
           THEN /\ logged' = Append(logged, c)
                /\ conns' = delete(conns, c)
                /\ reg' = [reg EXCEPT ![c].state = "evicted"]
                /\ UNCHANGED metrics
           ELSE /\ metrics' = metrics \o Sends(c, entry, r.info[1])
                /\ UNCHANGED <<logged, conns, reg>>
  /\ todo' = todo \ {c}
  /\ UNCHANGED <<vars, linVars, mu, fdtab, born>>

\* a Collect that unlocks at the end of the loop only, and leaves through
\* the failure branch without unlocking
CollectUnlock_NotAfterFailure ==
  /\ mu = "Collect"
  /\ todo = {}
  /\ logged = <<>>
  /\ mu' = "free"
  /\ metrics' = <<>>
  /\ logged' = <<>>
  /\ pull' = [began |-> <<>>, acq |-> <<>>]
  /\ UNCHANGED <<vars, linVars, conns, todo, fdtab, born, reg>>

\* lines 59-60 and the deferred Unlock: the loop is over
CollectUnlock ==
  /\ mu = "Collect"
  /\ todo = {}
  /\ mu' = "free"
  /\ metrics' = <<>>
  /\ logged' = <<>>
  /\ pull' = [began |-> <<>>, acq |-> <<>>]
  /\ UNCHANGED <<vars, linVars, conns, todo, fdtab, born, reg>>

NextExporter ==
  \/ \E c \in ConnIds : HostOpen(c)
  \/ \E c \in ConnIds : HostClose(c)
  \/ \E c \in ConnIds, labels \in LabelValues : Add(c, labels)
  \/ \E c \in ConnIds : Remove(c)
  \/ CollectLock
  \/ \E c \in ConnIds : CollectEntry(c)
  \/ CollectUnlock

SpecExporter == InitExporter /\ [][NextExporter]_allVars

\* the same operations with every connection added under the same label
\* values: which labels an entry carries has no part in how a Collect ends
NextExporterFair ==
  \/ \E c \in ConnIds : HostOpen(c)
  \/ \E c \in ConnIds : HostClose(c)
  \/ \E c \in ConnIds : Add(c, <<"a">>)
  \/ \E c \in ConnIds : Remove(c)
  \/ CollectLock
  \/ \E c \in ConnIds : CollectEntry(c)
  \/ CollectUnlock

\* Collect runs on a goroutine of its own: a turn of its loop waits for
\* nothing but the receiver of the metrics channel and the return of the
\* error callback, so with a consumer that keeps receiving and a callback
\* that returns, a Collect that can take a step takes one.  The host, Add and
\* Remove are under no obligation.
SpecExporterFair ==
  /\ InitExporter
  /\ [][NextExporterFair]_allVars
  /\ WF_allVars(\E c \in ConnIds : CollectEntry(c))
  /\ WF_allVars(CollectUnlock)

\* ---------------------------------------------------------------- the Linux acquisition
\* init() (init.go 59-66): the kernel version is probed once and the flags
\* and the size are derived from it
InitLinux ==
  /\ WrapperAtRest
  /\ ExporterAtRest
  /\ \E v \in KernelVersions :
        LET a == adaptToKernelVersion(v, NoFlags, 0)
        IN /\ linuxKernelVersion = v
           /\ kernelVersionIsAtLeast = a.flags
           /\ sizeOfRawTCPInfo = a.size
  /\ out = [op |-> "none"]

\* the unit tests' override (tcpinfo_test.go 200-201): linuxKernelVersion is
\* replaced and adaptToKernelVersion runs again on the flags and the size
\* left by the run before
Adapt(v) ==
  /\ LET a == adaptToKernelVersion(v, kernelVersionIsAtLeast, sizeOfRawTCPInfo)
     IN /\ linuxKernelVersion' = v
        /\ kernelVersionIsAtLeast' = a.flags
        /\ sizeOfRawTCPInfo' = a.size
  /\ out' = [op |-> "adaptToKernelVersion"]
  /\ UNCHANGED <<vars, expVars>>

\* the calls below keep no state of their own: what they return depends on
\* their input and on the flags and the size only, so each is taken once
\* after every adaptation
Fresh == out.op \in {"none", "adaptToKernelVersion"}

\* Unpack with the two halves of the window-scale byte exchanged
UnpackCall_ScalesSwapped(packed) ==
  /\ Fresh
  /\ out' = [op |-> "Unpack", packed |-> packed,
             sys |-> [Unpack(packed, kernelVersionIsAtLeast) EXCEPT
                        !.TxWindowScale = packed.bitfield0 \div 16,
                        !.RxWindowScale = packed.bitfield0 % 16]]
  /\ UNCHANGED <<vars, expVars, linuxKernelVersion, kernelVersionIsAtLeast, sizeOfRawTCPInfo>>

\* Unpack reading the fast-open reason without shifting the app-limited bit
\* away
UnpackCall_NoShift(packed) ==
  /\ Fresh
  /\ out' = [op |-> "Unpack", packed |-> packed,
             sys |-> LET u == Unpack(packed, kernelVersionIsAtLeast)
                     IN [u EXCEPT !.FastOpenClientFail.Value =
                           IF u.FastOpenClientFail.Valid THEN packed.bitfield1 % 4 ELSE 0]]
  /\ UNCHANGED <<vars, expVars, linuxKernelVersion, kernelVersionIsAtLeast, sizeOfRawTCPInfo>>

\* a call of (*RawTCPInfo).Unpack
UnpackCall(packed) ==
  /\ Fresh
  /\ out' = [op |-> "Unpack", packed |-> packed,
             sys |-> Unpack(packed, kernelVersionIsAtLeast)]
  /\ UNCHANGED <<vars, expVars, linuxKernelVersion, kernelVersionIsAtLeast, sizeOfRawTCPInfo>>

\* a call of GetTCPInfo on a socket for which the kernel answers kern, alg
\* and cc to the three getsockopt calls
GetTCPInfoCall(kern, alg, cc) ==
  /\ Fresh
  /\ LET r == GetTCPInfo(kernelVersionIsAtLeast, sizeOfRawTCPInfo, kern, alg, cc)
     IN out' = [op |-> "GetTCPInfo", primary |-> kern.errNo, algErr |-> alg.err,
                alg |-> alg.name, ccErr |-> cc.err,
                sys |-> r.sys, err |-> r.err, len |-> r.len]
  /\ UNCHANGED <<vars, expVars, linuxKernelVersion, kernelVersionIsAtLeast, sizeOfRawTCPInfo>>

NextLinux ==
  \/ \E v \in KernelVersions : Adapt(v)
  \/ \E packed \in RawInputs : UnpackCall(packed)
  \/ \E kern \in KernelAnswers, alg \in AlgAnswers, cc \in CCAnswers :
        GetTCPInfoCall(kern, alg, cc)

SpecLinux == InitLinux /\ [][NextLinux]_allVars

\* ---------------------------------------------------------------- pkg/tcpinfo, windows build
\* tcpStateMap of the windows build: TCPS_CLOSED = 0 .. TCPS_TIME_WAIT = 10
WinStateNames ==
  << "CLOSE", "LISTEN", "SYN_SENT", "SYN_RECV", "ESTABLISHED", "FIN_WAIT1",
     "FIN_WAIT2", "CLOSE_WAIT", "CLOSING", "LAST_ACK", "TIME_WAIT" >>

WinStateMap(state) ==
  IF state \in 0..(Len(WinStateNames) - 1) THEN WinStateNames[state + 1] ELSE ""

\* time.Duration(x) * time.Millisecond, in nanoseconds
Millis(x) == x * 1000000

\* the fields both Unpack functions copy as they are: SysInfo name, raw name
WinCopied ==
  << [name |-> "MSS",               raw |-> "Mss"],
     [name |-> "BytesInFlight",     raw |-> "BytesInFlight"],
     [name |-> "CongestionWindow",  raw |-> "Cwnd"],
     [name |-> "TxWindow",          raw |-> "SndWnd"],
     [name |-> "RxWindow",          raw |-> "RcvWnd"],
     [name |-> "RxBuffer",          raw |-> "RcvBuf"],
     [name |-> "TxBytes",           raw |-> "BytesOut"],
     [name |-> "RxBytes",           raw |-> "BytesIn"],
     [name |-> "RxOutOfOrderBytes", raw |-> "BytesReordered"],
     [name |-> "TxRetransmitBytes", raw |-> "BytesRetrans"],
     [name |-> "FastRetrans",       raw |-> "FastRetrans"],
     [name |-> "DupAcksIn",         raw |-> "DupAcksIn"],
     [name |-> "TimeoutEpisodes",   raw |-> "TimeoutEpisodes"],
     [name |-> "SynRetrans",        raw |-> "SynRetrans"] >>

\* the fields of _TCP_INFO_v1 only; ms marks the times, which are multiplied
\* by time.Millisecond
WinV1Only ==
  << [name |-> "SndLimTransRwin",     raw |-> "SndLimTransRwin", ms |-> FALSE],
     [name |-> "SndLimTransTimeRwin", raw |-> "SndLimTimeRwin",  ms |-> TRUE],
     [name |-> "SndLimBytesRwin",     raw |-> "SndLimBytesRwin", ms |-> FALSE],
     [name |-> "SndLimTransCwnd",     raw |-> "SndLimTransCwnd", ms |-> FALSE],
     [name |-> "SndLimTimeCwnd",      raw |-> "SndLimTimeCwnd",  ms |-> TRUE],
     [name |-> "SndLimBytesCwnd",     raw |-> "SndLimBytesCwnd", ms |-> FALSE],
     [name |-> "SndLimTransSnd",      raw |-> "SndLimTransSnd",  ms |-> FALSE],
     [name |-> "SndLimTimeSnd",       raw |-> "SndLimTimeSnd",   ms |-> TRUE],
     [name |-> "SndLimBytesSnd",      raw |-> "SndLimBytesSnd",  ms |-> FALSE] >>

WinCopiedNames == {WinCopied[i].name : i \in 1..Len(WinCopied)}
WinCopiedOf(name) == WinCopied[CHOOSE i \in 1..Len(WinCopied) : WinCopied[i].name = name]
WinV1Names == {WinV1Only[i].name : i \in 1..Len(WinV1Only)}
WinV1Of(name) == WinV1Only[CHOOSE i \in 1..Len(WinV1Only) : WinV1Only[i].name = name]

\* (*RawInfoV0).Unpack: the fields of SysInfo it does not set keep their
\* zero value
UnpackV0(packed) ==
  [ State |-> packed.State,
    StateName |-> WinStateMap(packed.State),
    ConnectedTimeNS |-> Millis(packed.ConnectionTimeMs),
    RTT |-> Micros(packed.RttUs),
    RTTMin |-> Micros(packed.MinRttUs),
    C |-> [nm \in WinCopiedNames |-> packed.c[WinCopiedOf(nm).raw]],
    V1 |-> [nm \in WinV1Names |-> 0] ]

\* (*RawInfoV1).Unpack: ConnectionTimeMs is multiplied by timeFieldMultiplier,
\* which is time.Microsecond
UnpackV1(packed) ==
  [ State |-> packed.State,
    StateName |-> WinStateMap(packed.State),
    ConnectedTimeNS |-> Micros(packed.ConnectionTimeMs),
    RTT |-> Micros(packed.RttUs),
    RTTMin |-> Micros(packed.MinRttUs),
    C |-> [nm \in WinCopiedNames |-> packed.c[WinCopiedOf(nm).raw]],
    V1 |-> [nm \in WinV1Names |->
              LET e == WinV1Of(nm)
              IN IF e.ms THEN Millis(packed.lim[e.raw]) ELSE packed.lim[e.raw]] ]

\* fmt.Errorf("could not perform the WSAIoctl: %v", err): a new error value
\* whose text ends with the text of err
Errorf(err) == "could not perform the WSAIoctl: " \o err

\* the two WSAIoctl calls of GetTCPInfo: the version written to the input
\* buffer and the structure the output buffer is sized for
WinFirstRequest == [version |-> 1, outbuf |-> "RawInfoV1"]
WinSecondRequest == [version |-> 1, outbuf |-> "RawInfoV0"]

\* GetTCPInfo of the windows build; k1 and k0 are what the system answers to
\* the first and to the second WSAIoctl: [raw, err], raw being the output
\* buffer after the call
WinGetTCPInfo(k1, k0) ==
  IF k1.err = NoErr
  THEN [sys |-> <<UnpackV1(k1.raw)>>, err |-> NoErr, reqs |-> <<WinFirstRequest>>]
  ELSE IF k0.err # NoErr
       THEN [sys |-> Nil, err |-> Errorf(k0.err),
             reqs |-> <<WinFirstRequest, WinSecondRequest>>]
       ELSE [sys |-> <<UnpackV0(k0.raw)>>, err |-> NoErr,
             reqs |-> <<WinFirstRequest, WinSecondRequest>>]

WinRawIndex(r) == CHOOSE i \in 1..Len(WinCopied) : WinCopied[i].raw = r
WinLimIndex(r) == CHOOSE i \in 1..Len(WinV1Only) : WinV1Only[i].raw = r

\* a RawInfoV0 and a RawInfoV1 with the same values in the common fields:
\* the counters are multiples of x, a different one for every field
RawInfoV0(state, ms, x) ==
  [ State |-> state, ConnectionTimeMs |-> ms, RttUs |-> 2 * x, MinRttUs |-> x,
    c |-> [r \in {WinCopied[i].raw : i \in 1..Len(WinCopied)} |-> x * WinRawIndex(r)] ]

RawInfoV1(state, ms, x) ==
  [ State |-> state, ConnectionTimeMs |-> ms, RttUs |-> 2 * x, MinRttUs |-> x,
    c |-> [r \in {WinCopied[i].raw : i \in 1..Len(WinCopied)} |-> x * WinRawIndex(r)],
    lim |-> [r \in {WinV1Only[i].raw : i \in 1..Len(WinV1Only)} |-> x * WinLimIndex(r)] ]

\* every state up to one past TCPS_TIME_WAIT
WinStates == 0..Len(WinStateNames)

WinErrnos == {"EINVAL", "WSAEOPNOTSUPP", "WSAENOTSOCK"}

WinAnswersV1 ==
  {[raw |-> RawInfoV1(4, ms, 1), err |-> NoErr] : ms \in 0..MaxVal}
    \cup {[raw |-> RawInfoV1(0, 0, 0), err |-> e] : e \in WinErrnos}

WinAnswersV0 ==
  {[raw |-> RawInfoV0(4, ms, 1), err |-> NoErr] : ms \in 0..MaxVal}
    \cup {[raw |-> RawInfoV0(0, 0, 0), err |-> e] : e \in WinErrnos}

\* a call of (*RawInfoV0).Unpack and a call of (*RawInfoV1).Unpack on records
\* with the same values in the common fields
WinUnpackCall(state, ms, x) ==
  /\ Fresh
  /\ out' = [op |-> "WinUnpack", state |-> state, ms |-> ms,
             v0 |-> UnpackV0(RawInfoV0(state, ms, x)),
             v1 |-> UnpackV1(RawInfoV1(state, ms, x))]
  /\ UNCHANGED <<vars, expVars, linuxKernelVersion, kernelVersionIsAtLeast, sizeOfRawTCPInfo>>

WinGetTCPInfoCall(k1, k0) ==
  /\ Fresh
  /\ LET r == WinGetTCPInfo(k1, k0)
     IN out' = [op |-> "WinGetTCPInfo", first |-> k1.err, second |-> k0.err,
                sys |-> r.sys, err |-> r.err, reqs |-> r.reqs]
  /\ UNCHANGED <<vars, expVars, linuxKernelVersion, kernelVersionIsAtLeast, sizeOfRawTCPInfo>>

\* ---------------------------------------------------------------- pkg/tcpinfo, darwin build
\* tcpStateMap of the darwin build: TCPS_CLOSED = 0 .. TCPS_TIME_WAIT = 10
DarwinStateNames ==
  << "CLOSE", "LISTEN", "SYN_SENT", "SYN_RECV", "ESTABLISHED", "CLOSE_WAIT",
     "FIN_WAIT1", "CLOSING", "LAST_ACK", "FIN_WAIT2", "TIME_WAIT" >>

DarwinStateMap(state) ==
  IF state \in 0..(Len(DarwinStateNames) - 1) THEN DarwinStateNames[state + 1] ELSE ""

\* x & flag # 0 for a flag that is a power of two
Bit(x, flag) == (x \div flag) % 2 = 1

\* tcpInfoTCPFlagsString: the names of the set flags, joined by commas
tcpInfoTCPFlagsString(flags) ==
  IF Bit(flags, 1) /\ Bit(flags, 2) THEN "LOSS_RECOVERY,REORDERING_DETECTED"
  ELSE IF Bit(flags, 1) THEN "LOSS_RECOVERY"
  ELSE IF Bit(flags, 2) THEN "REORDERING_DETECTED"
  ELSE ""

\* tcpOptions with tcpOptionsMap of the darwin build
DarwinOptions ==
  << [flag |-> 1, Kind |-> "Timestamps"], [flag |-> 2, Kind |-> "SACK"],
     [flag |-> 4, Kind |-> "WindowScale"], [flag |-> 8, Kind |-> "ECN"] >>

\* the fields Unpack copies as they are, and those it converts from ms
DarwinCopied ==
  { "MaxSeg", "SendSSThresh", "SendCwnd", "SendWnd", "SendSBBytes", "RecvWnd",
    "TFOFlags", "TxPackets", "TxBytes", "TxRetransmitBytes", "RxPackets",
    "RxBytes", "RxOutOfOrderBytes", "TxRetransmitPackets" }

DarwinTimes == {"RTO", "RTTCur", "SRTT", "RTTVar"}

\* (*RawInfo).Unpack of the darwin build
DarwinUnpack(packed) ==
  LET set(e) == Bit(packed.Options, e.flag)
      on == SelectSeq(DarwinOptions, set)
  IN [ State |-> packed.State,
       StateName |-> DarwinStateMap(packed.State),
       SndWScale |-> packed.SendWscale,
       RcvWScale |-> packed.RecvWscale,
       Flags |-> tcpInfoTCPFlagsString(packed.Flags),
       T |-> [nm \in DarwinTimes |-> packed.t[nm] * 1000000],
       C |-> [nm \in DarwinCopied |-> packed.c[nm]],
       Options |-> [i \in 1..Len(on) |->
                      [Kind |-> on[i].Kind,
                       Value |-> IF on[i].Kind = "WindowScale" THEN packed.SendWscale ELSE 0]],
       PeerOptions |-> [i \in 1..Len(on) |->
                      [Kind |-> on[i].Kind,
                       Value |-> IF on[i].Kind = "WindowScale" THEN packed.RecvWscale ELSE 0]] ]

\* GetTCPInfo of the darwin build; kern is the kernel's answer to
\* getsockopt(TCP_CONNECTION_INFO): [raw, errNo]
DarwinGetTCPInfo(kern) ==
  IF kern.errNo # NoErr THEN [sys |-> Nil, err |-> RawErr(kern.errNo)]
  ELSE [sys |-> <<DarwinUnpack(kern.raw)>>, err |-> NoErr]

DarwinRaw(state, options, flags, x) ==
  [ State |-> state, SendWscale |-> 7, RecvWscale |-> 8, Options |-> options,
    Flags |-> flags, t |-> [nm \in DarwinTimes |-> x],
    c |-> [nm \in DarwinCopied |-> 2 * x] ]

DarwinAnswers ==
  {[raw |-> DarwinRaw(4, o, 1, 1), errNo |-> NoErr] : o \in 0..15}
    \cup {[raw |-> DarwinRaw(st, 4, f, x), errNo |-> NoErr] :
             st \in 0..Len(DarwinStateNames), f \in 0..3, x \in 0..MaxVal}
    \cup {[raw |-> DarwinRaw(0, 0, 0, 0), errNo |-> e] :
             e \in {"EAGAIN", "EINVAL", "ENOENT", "EBADF"}}

DarwinGetTCPInfoCall(kern) ==
  /\ Fresh
  /\ LET r == DarwinGetTCPInfo(kern)
     IN out' = [op |-> "DarwinGetTCPInfo", primary |-> kern.errNo,
                sys |-> r.sys, err |-> r.err]
  /\ UNCHANGED <<vars, expVars, linuxKernelVersion, kernelVersionIsAtLeast, sizeOfRawTCPInfo>>

\* ---------------------------------------------------------------- the acquisition layer
\* the three builds of package tcpinfo side by side: a call of one build
\* reads and changes nothing of another
NextPlatforms ==
  \/ NextLinux
  \/ \E state \in WinStates, ms \in 0..MaxVal, x \in 0..MaxVal : WinUnpackCall(state, ms, x)
  \/ \E k1 \in WinAnswersV1, k0 \in WinAnswersV0 : WinGetTCPInfoCall(k1, k0)
  \/ \E kern \in DarwinAnswers : DarwinGetTCPInfoCall(kern)

SpecPlatforms == InitLinux /\ [][NextPlatforms]_allVars

\* ---------------------------------------------------------------- tcpinfo
\* SysInfo as far as the wrapper looks at it
SysInfo(i) == [StateName |-> "ESTABLISHED", RTT |-> i]

\* (*SysInfo).ToInfo: projects the platform record and keeps a back reference
ToInfo(s) == [State |-> s.StateName, RTT |-> s.RTT, Sys |-> s]

\* results of tcpinfo.GetTCPInfo: the primary call failed (nil, err); the
\* congestion-control lookup failed (record, err); success (record, nil)
GetResults ==
  {[sys |-> Nil, err |-> "einval"]}
    \cup {[sys |-> <<SysInfo(i)>>, err |-> e] : i \in 1..MaxInfo, e \in {"einval", NoErr}}

\* (*net.TCPConn).SyscallConn fails on a TCPConn without a descriptor
SyscallConnErr(conn) == IF conn.kind = "tcp_invalid" THEN "einval" ELSE NoErr

\* RawConn.Control fails without running its function once the descriptor
\* is closed
ControlErr(conn) == IF conn.closed THEN "closed" ELSE NoErr

\* ---------------------------------------------------------------- wrap.go
\* gatherAndReport(state) on Conn c over connection conn, where get is what
\* tcpinfo.GetTCPInfo returns if it is reached.  Result: the Conn after the
\* call, whether the callback ran, the tcpinfo.GetTCPInfo calls made (one at
\* most: <<TRUE>> if it returned a record, <<FALSE>> if it returned nil) and
\* whether the call unwound with a nil-pointer panic.
Done(c, rep, acq, pan) == [w |-> c, reported |-> rep, acq |-> acq, panicked |-> pan]

\* gatherAndReport that reports only after a snapshot was stored (no defer)
gatherAndReport_NoDefer(c, conn, state, get) ==
  IF c.reportStats = "nil" THEN Done(c, FALSE, Nil, FALSE)
  ELSE IF state # Opened /\ state # Closed THEN Done(c, FALSE, Nil, FALSE)
  ELSE IF state = Opened /\ c.OpenedInfo # Nil THEN Done(c, FALSE, Nil, FALSE)
  ELSE IF state = Closed /\ c.ClosedInfo # Nil THEN Done(c, FALSE, Nil, FALSE)
  ELSE IF ~c.supportsTCPInfo \/ c.InfoErr # NoErr THEN Done(c, FALSE, Nil, FALSE)
  ELSE IF conn.kind = "pipe" THEN Done(c, FALSE, Nil, FALSE)
  ELSE IF SyscallConnErr(conn) # NoErr THEN Done(c, FALSE, Nil, FALSE)
  ELSE IF ControlErr(conn) # NoErr
       THEN Done([c EXCEPT !.InfoErr = ControlErr(conn)], FALSE, Nil, FALSE)
  ELSE IF get.sys = Nil THEN Done(c, FALSE, <<FALSE>>, TRUE)
  ELSE IF state = Opened
       THEN Done([c EXCEPT !.OpenedInfo = <<ToInfo(get.sys[1])>>], TRUE, <<TRUE>>, FALSE)
  ELSE Done([c EXCEPT !.ClosedInfo = <<ToInfo(get.sys[1])>>], TRUE, <<TRUE>>, FALSE)

\* gatherAndReport without the guard on an existing closed-state snapshot
gatherAndReport_NoClosedGuard(c, conn, state, get) ==
  IF c.reportStats = "nil" THEN Done(c, FALSE, Nil, FALSE)
  ELSE IF state # Opened /\ state # Closed THEN Done(c, FALSE, Nil, FALSE)
  ELSE IF state = Opened /\ c.OpenedInfo # Nil THEN Done(c, FALSE, Nil, FALSE)
  ELSE IF ~c.supportsTCPInfo \/ c.InfoErr # NoErr THEN Done(c, TRUE, Nil, FALSE)
  ELSE IF conn.kind = "pipe" THEN Done(c, TRUE, Nil, FALSE)
  ELSE IF SyscallConnErr(conn) # NoErr THEN Done(c, TRUE, Nil, FALSE)
  ELSE IF ControlErr(conn) # NoErr
       THEN Done([c EXCEPT !.InfoErr = ControlErr(conn)], TRUE, Nil, FALSE)
  ELSE IF get.sys = Nil THEN Done(c, TRUE, <<FALSE>>, TRUE)
  ELSE IF state = Opened
       THEN Done([c EXCEPT !.OpenedInfo = <<ToInfo(get.sys[1])>>], TRUE, <<TRUE>>, FALSE)
  ELSE Done([c EXCEPT !.ClosedInfo = <<ToInfo(get.sys[1])>>], TRUE, <<TRUE>>, FALSE)

\* gatherAndReport where a nil callback suppresses the report only
gatherAndReport_NilGathers(c, conn, state, get) ==
  LET rep == c.reportStats # "nil"
  IN IF state # Opened /\ state # Closed THEN Done(c, FALSE, Nil, FALSE)
     ELSE IF state = Opened /\ c.OpenedInfo # Nil THEN Done(c, FALSE, Nil, FALSE)
     ELSE IF state = Closed /\ c.ClosedInfo # Nil THEN Done(c, FALSE, Nil, FALSE)
     ELSE IF ~c.supportsTCPInfo \/ c.InfoErr # NoErr THEN Done(c, rep, Nil, FALSE)
     ELSE IF conn.kind = "pipe" THEN Done(c, rep, Nil, FALSE)
     ELSE IF SyscallConnErr(conn) # NoErr THEN Done(c, rep, Nil, FALSE)
     ELSE IF ControlErr(conn) # NoErr
          THEN Done([c EXCEPT !.InfoErr = ControlErr(conn)], rep, Nil, FALSE)
     ELSE IF get.sys = Nil THEN Done(c, rep, <<FALSE>>, TRUE)
     ELSE IF state = Opened
          THEN Done([c EXCEPT !.OpenedInfo = <<ToInfo(get.sys[1])>>], rep, <<TRUE>>, FALSE)
     ELSE Done([c EXCEPT !.ClosedInfo = <<ToInfo(get.sys[1])>>], rep, <<TRUE>>, FALSE)

\* gatherAndReport that goes on to the acquisition on a platform without
\* TCP_INFO support
gatherAndReport_NoSupportCheck(c, conn, state, get) ==
  IF c.reportStats = "nil" THEN Done(c, FALSE, Nil, FALSE)
  ELSE IF state # Opened /\ state # Closed THEN Done(c, FALSE, Nil, FALSE)
  ELSE IF state = Opened /\ c.OpenedInfo # Nil THEN Done(c, FALSE, Nil, FALSE)
  ELSE IF state = Closed /\ c.ClosedInfo # Nil THEN Done(c, FALSE, Nil, FALSE)
  ELSE IF c.InfoErr # NoErr THEN Done(c, TRUE, Nil, FALSE)
  ELSE IF conn.kind = "pipe" THEN Done(c, TRUE, Nil, FALSE)
  ELSE IF SyscallConnErr(conn) # NoErr THEN Done(c, TRUE, Nil, FALSE)
  ELSE IF ControlErr(conn) # NoErr
       THEN Done([c EXCEPT !.InfoErr = ControlErr(conn)], TRUE, Nil, FALSE)
  ELSE IF get.sys = Nil THEN Done(c, TRUE, <<FALSE>>, TRUE)
  ELSE IF state = Opened
       THEN Done([c EXCEPT !.OpenedInfo = <<ToInfo(get.sys[1])>>], TRUE, <<TRUE>>, FALSE)
  ELSE Done([c EXCEPT !.ClosedInfo = <<ToInfo(get.sys[1])>>], TRUE, <<TRUE>>, FALSE)

gatherAndReport(c, conn, state, get) ==
  IF c.reportStats = "nil" THEN Done(c, FALSE, Nil, FALSE)
  ELSE IF state # Opened /\ state # Closed THEN Done(c, FALSE, Nil, FALSE)
  ELSE IF state = Opened /\ c.OpenedInfo # Nil THEN Done(c, FALSE, Nil, FALSE)
  ELSE IF state = Closed /\ c.ClosedInfo # Nil THEN Done(c, FALSE, Nil, FALSE)
  \* from here on the deferred reportStats(w, state) runs on every exit
  ELSE IF ~c.supportsTCPInfo \/ c.InfoErr # NoErr THEN Done(c, TRUE, Nil, FALSE)
  ELSE IF conn.kind = "pipe" THEN Done(c, TRUE, Nil, FALSE)
  ELSE IF SyscallConnErr(conn) # NoErr THEN Done(c, TRUE, Nil, FALSE)
  ELSE IF ControlErr(conn) # NoErr
       THEN Done([c EXCEPT !.InfoErr = ControlErr(conn)], TRUE, Nil, FALSE)
  \* Control ran the closure: sysInfo is GetTCPInfo's record, its error went
  \* to the outer err and is not looked at again
  ELSE IF get.sys = Nil THEN Done(c, TRUE, <<FALSE>>, TRUE)   \* sysInfo.ToInfo() on nil
  ELSE IF state = Opened
       THEN Done([c EXCEPT !.OpenedInfo = <<ToInfo(get.sys[1])>>], TRUE, <<TRUE>>, FALSE)
  ELSE Done([c EXCEPT !.ClosedInfo = <<ToInfo(get.sys[1])>>], TRUE, <<TRUE>>, FALSE)

SnapOf(c) == [OpenedInfo |-> c.OpenedInfo, ClosedInfo |-> c.ClosedInfo, InfoErr |-> c.InfoErr]

\* the twin's snapshot fields after the same gatherAndReport call
TwinAfter(c, conn, state, get) ==
  SnapOf(gatherAndReport(
    [c EXCEPT !.reportStats = "fn", !.OpenedInfo = twin.OpenedInfo,
              !.ClosedInfo = twin.ClosedInfo, !.InfoErr = twin.InfoErr],
    conn, state, get).w)

Init ==
  /\ supported \in BOOLEAN
  /\ ncon \in [kind : {"pipe", "tcp", "tcp_invalid"}, closed : BOOLEAN]
  /\ ncon.closed => ncon.kind = "tcp"
  /\ ~supported => ~ncon.closed /\ ncon.kind # "tcp_invalid"
  /\ now = 1
  /\ phase = "init"
  /\ w = ZeroConn
  /\ pc = [t \in Threads |-> "idle"]
  /\ loc = [t \in Threads |-> ZeroLoc]
  /\ reports = <<>>
  /\ acqLog = <<>>
  /\ twin = ZeroTwin
  /\ hist = ZeroHist
  /\ LinuxAtRest
  /\ ExporterAtRest

\* time.Now().UnixNano(): what the next reading of the clock can be.  Only
\* the order of the readings is used, and successive readings differ.
Clock == {now + 1}

\* what the callback finds when gatherAndReport(state) invokes it with the
\* Conn c: the state, whether this gatherAndReport got a record from
\* tcpinfo.GetTCPInfo, whether c holds the snapshot for state, whether
\* c.ClosedAt is set and whether the underlying connection is closed
Seen(state, got, c, conn) ==
  [ state |-> state, got |-> got,
    hasInfo |-> IF state = Opened THEN c.OpenedInfo # Nil ELSE c.ClosedInfo # Nil,
    stamped |-> c.ClosedAt # 0,
    underClosed |-> conn.closed ]

\* WrapConn / WrapConnWithContext
WrapConn(fn, get) ==
  /\ phase = "init"
  /\ LET c0 == [ZeroConn EXCEPT !.reportStats = fn, !.OpenedAt = now,
                                !.supportsTCPInfo = supported]
         r == gatherAndReport(c0, ncon, Opened, get)
     IN /\ w' = r.w
        /\ reports' = IF r.reported THEN Append(reports, Opened) ELSE reports
        /\ acqLog' = acqLog \o r.acq
        /\ phase' = IF r.panicked THEN "wrap_panicked" ELSE "wrapped"
        /\ twin' = TwinAfter(c0, ncon, Opened, get)
        /\ hist' = IF r.reported
                   THEN [hist EXCEPT !.seen = <<Seen(Opened, r.acq = <<TRUE>>, r.w, ncon)>>]
                   ELSE hist
  /\ UNCHANGED <<linVars, expVars, supported, ncon, now, pc, loc>>

Running(u) == pc[u] \notin {"idle", "done"}

Busy(t) == \E u \in Threads \ {t} : Running(u)

Begin(t) ==
  /\ phase = "wrapped"
  /\ pc[t] = "idle"
  /\ t > 1 => pc[t - 1] # "idle"

Started(t) == [hist EXCEPT !.overlapped = @ \/ Busy(t)]

\* what the underlying Read/Write can return
IOResults(conn) ==
  IF conn.kind = "tcp_invalid" THEN {[n |-> 0, err |-> "einval"]}
  ELSE IF conn.closed
       THEN {[n |-> 0, err |-> IF conn.kind = "pipe" THEN "eof" ELSE "closed"]}
  ELSE [n : 0..MaxN, err : {NoErr, "timeout", "reset"}]

\* ---- Read
\* lines 135-143: the timestamps of a successful transfer taken at time ts
StampRx_FirstForLast(c, n, err, ts) ==
  IF err = NoErr /\ n > 0
  THEN IF c.FirstRxAt = 0 THEN [c EXCEPT !.FirstRxAt = ts, !.LastRxAt = ts]
       ELSE [c EXCEPT !.FirstRxAt = ts]
  ELSE c

StampRx(c, n, err, ts) ==
  IF err = NoErr /\ n > 0
  THEN IF c.FirstRxAt = 0 THEN [c EXCEPT !.FirstRxAt = ts, !.LastRxAt = ts]
       ELSE [c EXCEPT !.LastRxAt = ts]
  ELSE c

\* line 144, w.RxBytes += int64(n), as the store of a value loaded before
AddRx_Assign(c, tmp, n) == [c EXCEPT !.RxBytes = n]

AddRx(c, tmp, n) == [c EXCEPT !.RxBytes = tmp + n]

\* lines 145-147
NoteRxErr(c, err) ==
  IF IsNetError(err) /\ ~Timeout(err) THEN [c EXCEPT !.RxErr = err] ELSE c

Stamped(n, err) == err = NoErr /\ n > 0

\* lines 134-144: the underlying Read returns, the transfer is stamped and
\* RxBytes is loaded for the addition
ReadCall(t, r, ts) ==
  /\ Begin(t)
  /\ r \in IOResults(ncon)
  /\ ts \in Clock
  /\ now' = IF Stamped(r.n, r.err) THEN ts ELSE now
  /\ w' = StampRx(w, r.n, r.err, ts)
  /\ loc' = [loc EXCEPT ![t] = [n |-> r.n, err |-> r.err, tmp |-> w.RxBytes]]
  /\ pc' = [pc EXCEPT ![t] = "r_store"]
  /\ hist' = [Started(t) EXCEPT !.lateXfer =
                 @ \/ (Stamped(r.n, r.err) /\ hist.closeStarted > 0)]
  /\ UNCHANGED <<linVars, expVars, supported, ncon, phase, reports, acqLog, twin>>

\* lines 144-148: RxBytes is stored, the error noted, Read returns
ReadStore(t) ==
  /\ pc[t] = "r_store"
  /\ w' = NoteRxErr(AddRx(w, loc[t].tmp, loc[t].n), loc[t].err)
  /\ pc' = [pc EXCEPT ![t] = "done"]
  /\ loc' = [loc EXCEPT ![t] = ZeroLoc]
  /\ hist' = [hist EXCEPT !.rxSum = @ + loc[t].n]
  /\ UNCHANGED <<linVars, expVars, supported, ncon, now, phase, reports, acqLog, twin>>

\* ---- Write
\* lines 154-162
StampTx(c, n, err, ts) ==
  IF err = NoErr /\ n > 0
  THEN IF c.FirstTxAt = 0 THEN [c EXCEPT !.FirstTxAt = ts, !.LastTxAt = ts]
       ELSE [c EXCEPT !.LastTxAt = ts]
  ELSE c

\* line 163
AddTx(c, tmp, n) == [c EXCEPT !.TxBytes = tmp + n]

\* lines 164-167: TxErr is assigned err first, then once more if err is a
\* non-timeout net.Error
NoteTxErr(c, err) ==
  LET c1 == [c EXCEPT !.TxErr = err]
  IN IF IsNetError(err) /\ ~Timeout(err) THEN [c1 EXCEPT !.TxErr = err] ELSE c1

\* lines 153-163: the underlying Write returns, the transfer is stamped and
\* TxBytes is loaded for the addition
WriteCall(t, r, ts) ==
  /\ Begin(t)
  /\ r \in IOResults(ncon)
  /\ ts \in Clock
  /\ now' = IF Stamped(r.n, r.err) THEN ts ELSE now
  /\ w' = StampTx(w, r.n, r.err, ts)
  /\ loc' = [loc EXCEPT ![t] = [n |-> r.n, err |-> r.err, tmp |-> w.TxBytes]]
  /\ pc' = [pc EXCEPT ![t] = "w_store"]
  /\ hist' = [Started(t) EXCEPT !.lateXfer =
                 @ \/ (Stamped(r.n, r.err) /\ hist.closeStarted > 0)]
  /\ UNCHANGED <<linVars, expVars, supported, ncon, phase, reports, acqLog, twin>>

\* lines 163-168: TxBytes is stored, the error noted, Write returns
WriteStore(t) ==
  /\ pc[t] = "w_store"
  /\ w' = NoteTxErr(AddTx(w, loc[t].tmp, loc[t].n), loc[t].err)
  /\ pc' = [pc EXCEPT ![t] = "done"]
  /\ loc' = [loc EXCEPT ![t] = ZeroLoc]
  /\ hist' = [hist EXCEPT !.txSum = @ + loc[t].n]
  /\ UNCHANGED <<linVars, expVars, supported, ncon, now, phase, reports, acqLog, twin>>

\* ---- Close
\* line 127: w.ClosedAt = time.Now().UnixNano()
CloseCall(t, ts) ==
  /\ Begin(t)
  /\ ts \in Clock
  /\ now' = ts
  /\ w' = [w EXCEPT !.ClosedAt = ts]
  /\ pc' = [pc EXCEPT ![t] = "c_gather"]
  /\ hist' = [Started(t) EXCEPT !.closeStarted = @ + 1]
  /\ UNCHANGED <<linVars, expVars, supported, ncon, phase, loc, reports, acqLog, twin>>

\* Close whose report is made before gatherAndReport's body has run
CloseGather_ReportsFirst(t, get) ==
  /\ pc[t] = "c_gather"
  /\ LET r == gatherAndReport(w, ncon, Closed, get)
         h == IF r.reported
              THEN [hist EXCEPT !.seen = <<Seen(Closed, r.acq = <<TRUE>>, w, ncon)>>]
              ELSE hist
     IN /\ w' = r.w
        /\ reports' = IF r.reported THEN Append(reports, Closed) ELSE reports
        /\ acqLog' = acqLog \o r.acq
        /\ twin' = TwinAfter(w, ncon, Closed, get)
        /\ pc' = [pc EXCEPT ![t] = IF r.panicked THEN "done" ELSE "c_close"]
        /\ hist' = IF r.panicked
                   THEN [h EXCEPT !.closeDone = @ + 1,
                           !.lastClose = [called |-> FALSE, same |-> FALSE]]
                   ELSE h
  /\ UNCHANGED <<linVars, expVars, supported, ncon, now, phase, loc>>

\* line 128: w.gatherAndReport(Closed); a panic in it ends the Close call.
\* The deferred callback runs when the body of gatherAndReport is over and
\* is handed the Conn as the body left it.
CloseGather(t, get) ==
  /\ pc[t] = "c_gather"
  /\ LET r == gatherAndReport(w, ncon, Closed, get)
         h == IF r.reported
              THEN [hist EXCEPT !.seen = <<Seen(Closed, r.acq = <<TRUE>>, r.w, ncon)>>]
              ELSE hist
     IN /\ w' = r.w
        /\ reports' = IF r.reported THEN Append(reports, Closed) ELSE reports
        /\ acqLog' = acqLog \o r.acq
        /\ twin' = TwinAfter(w, ncon, Closed, get)
        /\ pc' = [pc EXCEPT ![t] = IF r.panicked THEN "done" ELSE "c_close"]
        /\ hist' = IF r.panicked
                   THEN [h EXCEPT !.closeDone = @ + 1,
                           !.lastClose = [called |-> FALSE, same |-> FALSE]]
                   ELSE h
  /\ UNCHANGED <<linVars, expVars, supported, ncon, now, phase, loc>>

\* what the underlying Close can return
CloseResults(conn) ==
  IF conn.kind = "tcp_invalid" THEN {"einval"}
  ELSE IF conn.closed THEN {IF conn.kind = "pipe" THEN "eof" ELSE "closed"}
  ELSE {NoErr, "reset"}

\* line 129: return w.Conn.Close()
CloseConn(t, e) ==
  /\ pc[t] = "c_close"
  /\ e \in CloseResults(ncon)
  /\ ncon' = [ncon EXCEPT !.closed = TRUE]
  /\ pc' = [pc EXCEPT ![t] = "done"]
  /\ hist' = [hist EXCEPT !.closeDone = @ + 1,
                 !.lastClose = [called |-> TRUE, same |-> TRUE]]
  /\ UNCHANGED <<linVars, expVars, supported, now, phase, w, loc, reports, acqLog, twin>>

Next ==
  \/ \E fn \in {"nil", "fn"}, get \in GetResults : WrapConn(fn, get)
  \/ \E t \in Threads : \E r \in IOResults(ncon), ts \in Clock : ReadCall(t, r, ts)
  \/ \E t \in Threads : ReadStore(t)
  \/ \E t \in Threads : \E r \in IOResults(ncon), ts \in Clock : WriteCall(t, r, ts)
  \/ \E t \in Threads : WriteStore(t)
  \/ \E t \in Threads : \E ts \in Clock : CloseCall(t, ts)
  \/ \E t \in Threads : \E get \in GetResults : CloseGather(t, get)
  \/ \E t \in Threads : \E e \in CloseResults(ncon) : CloseConn(t, e)

Spec == Init /\ [][Next]_vars

\* ================================================================ claims
AllIdle == \A t \in Threads : ~Running(t)
InGather == \E t \in Threads : pc[t] = "c_gather"
AcqFailed(i) == ~acqLog[i]
IsTCP == ncon.kind = "tcp"

\* C1: a connection wrapped with a non-nil callback has had the callback
\* invoked with Opened inside WrapConn; once it has been closed once the
\* callback has been invoked exactly twice, Opened then Closed (the Closed
\* report is made by the gatherAndReport step of that Close), whatever the
\* platform, the connection kind and the outcome of the snapshots.
C1_TwoReports ==
  /\ (phase # "init" /\ w.reportStats = "fn") =>
        (Len(reports) >= 1 /\ reports[1] = Opened)
  /\ (phase = "wrapped" /\ w.reportStats = "fn" /\ hist.closeStarted = 0) =>
        reports = <<Opened>>
  /\ (phase = "wrapped" /\ w.reportStats = "fn" /\ hist.closeStarted = 1) =>
        reports = (IF InGather THEN <<Opened>> ELSE <<Opened, Closed>>)

\* C1 witness: closed once, on a supported platform over TCP, with the
\* closed-state snapshot failing
C1_Witness ==
  /\ phase = "wrapped" /\ w.reportStats = "fn" /\ supported /\ IsTCP
  /\ hist.closeStarted = 1 /\ hist.closeDone = 1
  /\ Len(acqLog) = 2 /\ AcqFailed(2)
  /\ reports = <<Opened, Closed>>

\* C2 (as claimed): on a supported platform over a TCP connection, once
\* WrapConn has run and reported Opened, it has returned and exactly one of
\* OpenedInfo and InfoErr is set, also when acquisition failed.
C2_Claim ==
  (supported /\ IsTCP /\ phase # "init" /\ Len(reports) >= 1 /\ hist.closeStarted = 0) =>
      /\ phase = "wrapped"
      /\ (w.OpenedInfo # Nil) # (w.InfoErr # NoErr)

\* C3 (as claimed): an acquisition that failed is recorded in InfoErr and no
\* acquisition is attempted after it.
C3_Claim ==
  \A i \in 1..Len(acqLog) :
     AcqFailed(i) => (w.InfoErr # NoErr /\ i = Len(acqLog))

\* C4: OpenedInfo and ClosedInfo, once set, are never assigned again; a
\* gatherAndReport call for a state whose snapshot exists changes no field of
\* the Conn, makes no report and calls no acquisition.
C4_SnapshotsOnce ==
  [][ /\ (w.OpenedInfo # Nil => w'.OpenedInfo = w.OpenedInfo)
      /\ (w.ClosedInfo # Nil => w'.ClosedInfo = w.ClosedInfo)
      /\ (w.OpenedInfo # Nil =>
            \A get \in GetResults :
               gatherAndReport(w, ncon, Opened, get) = Done(w, FALSE, Nil, FALSE))
      /\ \A t \in Threads :
            (pc[t] = "c_gather" /\ pc'[t] # "c_gather" /\ w.ClosedInfo # Nil) =>
               (w' = w /\ reports' = reports /\ acqLog' = acqLog) ]_vars

\* C4 witness: Close was called twice on a connection that has both snapshots
C4_Witness ==
  /\ hist.closeDone = 2 /\ w.OpenedInfo # Nil /\ w.ClosedInfo # Nil
  /\ reports = <<Opened, Closed>>

\* C5 (as claimed): the snapshot fields are the same as those of the same
\* connection wrapped with a non-nil callback.
C5_Claim == phase # "init" => SnapOf(w) = twin

\* C5 (amended): with a nil callback nothing is gathered: no report, no
\* acquisition call, and OpenedInfo, ClosedInfo and InfoErr stay unset.
C5_NilSkipsAll ==
  w.reportStats = "nil" =>
     (reports = <<>> /\ acqLog = <<>> /\ SnapOf(w) = ZeroTwin)

\* C5 witness: wrapped with nil and closed, where a non-nil callback would
\* have got both snapshots
C5_Witness ==
  /\ phase = "wrapped" /\ w.reportStats = "nil" /\ hist.closeDone = 1
  /\ twin.OpenedInfo # Nil /\ twin.ClosedInfo # Nil

\* C6: after Read and Write calls made one at a time, RxBytes is the sum of
\* the n returned by the Reads and TxBytes the sum of the n returned by the
\* Writes, whether or not a call returned an error with its n.
C6_ByteCounts ==
  (~hist.overlapped /\ AllIdle) =>
     (w.RxBytes = hist.rxSum /\ w.TxBytes = hist.txSum)

\* C6 witness: two Reads, one of which returned n > 0 together with an error
\* (bytes were counted though no successful transfer was stamped)
C6_Witness ==
  /\ ~hist.overlapped /\ AllIdle
  /\ hist.rxSum = 2 /\ w.RxErr = "reset" /\ w.LastRxAt # 0 /\ w.FirstRxAt = w.LastRxAt

Le(a, b) == (a # 0 /\ b # 0) => a <= b

Ordered ==
  /\ Le(w.OpenedAt, w.FirstRxAt) /\ Le(w.FirstRxAt, w.LastRxAt) /\ Le(w.LastRxAt, w.ClosedAt)
  /\ Le(w.OpenedAt, w.FirstTxAt) /\ Le(w.FirstTxAt, w.LastTxAt) /\ Le(w.LastTxAt, w.ClosedAt)
  /\ Le(w.OpenedAt, w.ClosedAt)

C8_Claim == AllIdle => (w.RxBytes = hist.rxSum /\ w.TxBytes = hist.txSum)

StoresErr(e) == IsNetError(e) /\ ~Timeout(e)

\* C9 (as claimed): a Read (Write) changes RxErr (TxErr) only when it returns
\* a non-timeout network error, and then stores that error.
C9_Claim ==
  [][ \A t \in Threads :
        /\ (pc[t] = "r_store" /\ pc'[t] = "done") =>
              w'.RxErr = (IF StoresErr(loc[t].err) THEN loc[t].err ELSE w.RxErr)
        /\ (pc[t] = "w_store" /\ pc'[t] = "done") =>
              w'.TxErr = (IF StoresErr(loc[t].err) THEN loc[t].err ELSE w.TxErr) ]_vars

\* C10 (as claimed): every Close call has called the underlying Close and
\* returned what it returned.
C10_Claim ==
  hist.closeDone > 0 =>
     (hist.lastClose.called /\ hist.lastClose.same)

\* the Close calls that are past their gatherAndReport step
ClosesGathered == hist.closeStarted - Cardinality({t \in Threads : pc[t] = "c_gather"})

\* C11: when Supported() is false or the underlying connection is not a
\* *net.TCPConn, acquisition is never called: WrapConn returns, OpenedInfo,
\* ClosedInfo and InfoErr stay unset, the byte counters and the timestamps
\* are kept as on any connection, and a non-nil callback is invoked with
\* Opened by WrapConn and with Closed by every Close.
C11_NoAcquisition ==
  (~supported \/ ncon.kind = "pipe") =>
     /\ acqLog = <<>> /\ SnapOf(w) = ZeroTwin /\ phase # "wrap_panicked"
     /\ (~hist.overlapped /\ AllIdle) =>
            (w.RxBytes = hist.rxSum /\ w.TxBytes = hist.txSum)
     /\ (~hist.overlapped /\ ~hist.lateXfer) => Ordered
     /\ (phase = "wrapped" /\ w.reportStats = "fn") =>
            reports = <<Opened>> \o [i \in 1..ClosesGathered |-> Closed]

\* C11 witness: a non-TCP connection on a supported platform after a Read
\* that transferred a byte and a Close
C11_Witness ==
  /\ supported /\ ncon.kind = "pipe" /\ w.reportStats = "fn"
  /\ ~hist.overlapped /\ AllIdle /\ hist.closeDone = 1
  /\ w.RxBytes = 1 /\ w.LastRxAt # 0 /\ w.LastRxAt < w.ClosedAt
  /\ reports = <<Opened, Closed>> /\ acqLog = <<>>

\* ---------------------------------------------------------------- collector
Count(seq, x) == Cardinality({i \in DOMAIN seq : seq[i] = x})
SendsFor(c) == {j \in DOMAIN metrics : metrics[j].for = c}
Visited == {pull.acq[i].conn : i \in DOMAIN pull.acq}

\* C12: a Collect visits every entry the registry held when it began, each
\* once.  An entry whose acquisition failed was reported to the error
\* callback exactly once, is evicted and has no send; an entry whose
\* acquisition succeeded was not reported, stays registered and has exactly
\* one send per schema metric, made with that entry's label values.  A failure
\* does not end the loop: when the Collect is over every entry was visited.
C12_CollectAll ==
  /\ Visited = (DOMAIN pull.began) \ todo
  /\ Len(pull.acq) = Cardinality(Visited)
  /\ mu = "free" => todo = {}
  /\ \A i \in DOMAIN pull.acq :
        LET a == pull.acq[i]
        IN IF a.err # NoErr
           THEN /\ Count(logged, a.conn) = 1
                /\ SendsFor(a.conn) = {}
                /\ mu = "Collect" => a.conn \notin DOMAIN conns
           ELSE /\ Count(logged, a.conn) = 0
                /\ mu = "Collect" => a.conn \in DOMAIN conns
                /\ Cardinality(SendsFor(a.conn)) = Len(Infos)
                /\ \A k \in 1..Len(Infos) :
                      \E j \in SendsFor(a.conn) :
                         /\ metrics[j].metric = Infos[k].FieldName
                         /\ metrics[j].labels = pull.began[a.conn].labels

\* C12 witness: a Collect over two entries is over; the entry visited first
\* had its socket closed behind the collector, the second was sampled
C12_Witness ==
  /\ mu = "Collect" /\ todo = {} /\ kernelVersionIsAtLeast["2_6_2"]
  /\ Len(pull.acq) = 2 /\ pull.acq[1].err = "EBADF" /\ pull.acq[2].err = NoErr
  /\ Len(logged) = 1 /\ Len(metrics) = Len(Infos)
  /\ DOMAIN conns = {pull.acq[2].conn}

\* C13: the registry is a map with at most one entry per connection; it holds
\* an entry for c exactly when the latest thing done to c's registration is
\* an Add (not a Remove, not an eviction by a Collect whose acquisition for c
\* failed), the entry carries the labels of that Add, and removing a
\* connection that has no entry leaves the registry as it is.
C13_Registry ==
  /\ DOMAIN conns \subseteq ConnIds
  /\ \A c \in ConnIds : (c \in DOMAIN conns) <=> (reg[c].state = "added")
  /\ \A c \in DOMAIN conns : conns[c].labels = reg[c].labels
  /\ \A c \in ConnIds \ DOMAIN conns : delete(conns, c) = conns

\* C13 witness: connection 1 is registered, connection 2 was evicted by a
\* Collect and not added again
C13_Witness ==
  /\ 1 \in DOMAIN conns /\ conns[1].labels = <<"b">>
  /\ reg[2].state = "evicted" /\ 2 \notin DOMAIN conns

InfoOf(metric) == Infos[CHOOSE k \in 1..Len(Infos) : Infos[k].FieldName = metric]
RecordOf(c) == pull.acq[CHOOSE i \in DOMAIN pull.acq : pull.acq[i].conn = c].info[1]

AtLeast(v) == CompareKernelVersion(linuxKernelVersion, v) >= 0

\* the ladder of tiers and sizes C15 states
C15_Ladder ==
  << [Version |-> <<2, 6, 2>>,  Size |-> 104], [Version |-> <<3, 15, 0>>, Size |-> 120],
     [Version |-> <<4, 1, 0>>,  Size |-> 136], [Version |-> <<4, 2, 0>>,  Size |-> 144],
     [Version |-> <<4, 6, 0>>,  Size |-> 160], [Version |-> <<4, 9, 0>>,  Size |-> 168],
     [Version |-> <<4, 10, 0>>, Size |-> 192], [Version |-> <<4, 18, 0>>, Size |-> 200],
     [Version |-> <<4, 19, 0>>, Size |-> 224], [Version |-> <<5, 4, 0>>,  Size |-> 232],
     [Version |-> <<5, 5, 0>>,  Size |-> 232], [Version |-> <<6, 2, 0>>,  Size |-> 240],
     [Version |-> <<6, 7, 0>>,  Size |-> 248] >>

\* C15: on a kernel at or above 2.6.2 the number of bytes GetTCPInfo asks of
\* the kernel for TCP_INFO is the size the stated ladder gives for the highest
\* tier the kernel meets.
C15_RequestedLength ==
  (out.op = "GetTCPInfo" /\ AtLeast(<<2, 6, 2>>)) =>
     LET top == CHOOSE i \in 1..Len(C15_Ladder) :
                   /\ AtLeast(C15_Ladder[i].Version)
                   /\ \A j \in (i + 1)..Len(C15_Ladder) : ~AtLeast(C15_Ladder[j].Version)
     IN out.len = C15_Ladder[top].Size

\* the version in which C16 says each nullable field was added to tcp_info
C16_Tier ==
  [ PacingRate |-> <<3, 15, 0>>, MaxPacingRate |-> <<3, 15, 0>>,
    BytesAcked |-> <<4, 1, 0>>, BytesReceived |-> <<4, 1, 0>>,
    SegsOut |-> <<4, 2, 0>>, SegsIn |-> <<4, 2, 0>>,
    NotSentBytes |-> <<4, 6, 0>>, MinRTT |-> <<4, 6, 0>>,
    DataSegsIn |-> <<4, 6, 0>>, DataSegsOut |-> <<4, 6, 0>>,
    DeliveryRate |-> <<4, 9, 0>>,
    BusyTime |-> <<4, 10, 0>>, RxWindowLimited |-> <<4, 10, 0>>,
    TxBufferLimited |-> <<4, 10, 0>>,
    Delivered |-> <<4, 18, 0>>, DeliveredCE |-> <<4, 18, 0>>,
    BytesSent |-> <<4, 19, 0>>, BytesRetrans |-> <<4, 19, 0>>,
    DSACKDups |-> <<4, 19, 0>>, ReordSeen |-> <<4, 19, 0>>,
    RxOutOfOrder |-> <<5, 4, 0>>, TxWindow |-> <<5, 4, 0>>,
    RxWindow |-> <<6, 2, 0>>, Rehash |-> <<6, 2, 0>>,
    TotalRTO |-> <<6, 7, 0>>, TotalRTORecoveries |-> <<6, 7, 0>>,
    TotalRTOTime |-> <<6, 7, 0>> ]

\* C16: in the record Unpack returns, every nullable field is valid exactly
\* when the kernel is at least the version the field was added in, and an
\* invalid field has the zero value.
C16_ValidByTier ==
  out.op = "Unpack" =>
     \A nm \in NullableNames :
        LET f == out.sys.N[nm]
        IN /\ f.Valid <=> AtLeast(C16_Tier[nm])
           /\ ~f.Valid => f.Value = 0

\* C17: for every window-scale byte b, Unpack gives a transmit scale and a
\* receive scale in 0..15 with receive * 16 + transmit = b, which makes the
\* transmit scale the low and the receive scale the high nibble; 0x83 gives
\* transmit 3 and receive 8.
C17_WindowScales ==
  out.op = "Unpack" =>
     LET b == out.packed.bitfield0
         tx == out.sys.TxWindowScale
         rx == out.sys.RxWindowScale
     IN /\ tx \in 0..15 /\ rx \in 0..15
        /\ rx * 16 + tx = b
        /\ b = 131 => (tx = 3 /\ rx = 8)

\* C17 witness: Unpack of a record whose window-scale byte is 0x83
C17_Witness ==
  /\ out.op = "Unpack" /\ out.packed.bitfield0 = 131
  /\ out.sys.TxWindowScale = 3 /\ out.sys.RxWindowScale = 8

\* C18: for every delivery-rate/fast-open byte b = 8 * hi + 2 * r + a (a one
\* bit, r two bits) and every kernel, DeliveryRateAppLimited is valid exactly
\* from 4.9 with the value a = 1, FastOpenClientFail is valid exactly from
\* 5.5 with the value r, neither value depends on the other bits, and an
\* invalid field has its zero value.
C18_BitField1 ==
  out.op = "Unpack" =>
     \E hi \in 0..31, r \in 0..3, a \in 0..1 :
        /\ out.packed.bitfield1 = 8 * hi + 2 * r + a
        /\ out.sys.DeliveryRateAppLimited =
              (IF AtLeast(<<4, 9, 0>>) THEN [Valid |-> TRUE, Value |-> (a = 1)]
               ELSE [Valid |-> FALSE, Value |-> FALSE])
        /\ out.sys.FastOpenClientFail =
              (IF AtLeast(<<5, 5, 0>>) THEN [Valid |-> TRUE, Value |-> r]
               ELSE [Valid |-> FALSE, Value |-> 0])

\* C18 witness: on a kernel from 4.9 and before 5.5 the byte 7 is unpacked:
\* the app-limited flag is valid and set, the fast-open reason is not valid
C18_Witness ==
  /\ out.op = "Unpack" /\ out.packed.bitfield1 = 7
  /\ AtLeast(<<4, 9, 0>>) /\ ~AtLeast(<<5, 5, 0>>)
  /\ out.sys.DeliveryRateAppLimited = [Valid |-> TRUE, Value |-> TRUE]
  /\ out.sys.FastOpenClientFail = [Valid |-> FALSE, Value |-> 0]

\* the name C19 gives to a state value n that the table does not list
C19_Unknown ==
  [n \in 0..13 |->
     <<"UNKNOWN(0)", "UNKNOWN(1)", "UNKNOWN(2)", "UNKNOWN(3)", "UNKNOWN(4)",
       "UNKNOWN(5)", "UNKNOWN(6)", "UNKNOWN(7)", "UNKNOWN(8)", "UNKNOWN(9)",
       "UNKNOWN(10)", "UNKNOWN(11)", "UNKNOWN(12)", "UNKNOWN(13)">>[n + 1]]

\* C19: the record Unpack returns always has a state name: the table's name
\* for a state the table lists, "UNKNOWN(n)" for any other state n, never the
\* empty string.
C19_StateName ==
  out.op = "Unpack" =>
     LET n == out.sys.State
     IN /\ out.sys.StateName # ""
        /\ n \in 1..Len(tcpStateNames) => out.sys.StateName = tcpStateNames[n]
        /\ n \notin 1..Len(tcpStateNames) => out.sys.StateName = C19_Unknown[n]

\* some congestion-control extension field of the record is valid
SomeCCValid(sys) == \E nm \in CCNames : sys.CC[nm].Valid

\* C20: on a kernel that has TCP_INFO, GetTCPInfo fails exactly when the
\* primary TCP_INFO call fails, and then returns no record; when the primary
\* call succeeds it returns the record and no error, and if fetching the
\* algorithm name or the algorithm's block failed no congestion-control
\* extension field of the record is valid.
C20_CCFailureNotFatal ==
  (out.op = "GetTCPInfo" /\ AtLeast(<<2, 6, 2>>)) =>
     IF out.primary # NoErr
     THEN out.err # NoErr /\ out.sys = Nil
     ELSE /\ out.err = NoErr
          /\ out.sys # Nil
          /\ (out.algErr # NoErr \/ (out.alg \in CCAlgsWithInfo /\ out.ccErr # NoErr))
                => ~SomeCCValid(out.sys[1])

\* ---------------------------------------------------------------- acquisition on the other builds
\* C21: the windows GetTCPInfo first asks for version 1 and, only if that
\* fails, asks a second time, for version 0; when the second request succeeds
\* the record comes from the version-0 structure, its v1-only fields are zero
\* and no error is returned; an error is returned only when both requests
\* fail.
C21_Fallback ==
  out.op = "WinGetTCPInfo" =>
     /\ out.reqs[1].version = 1
     /\ Len(out.reqs) = (IF out.first = NoErr THEN 1 ELSE 2)
     /\ Len(out.reqs) = 2 => out.reqs[2].version = 0
     /\ (out.first # NoErr /\ out.second = NoErr) =>
           /\ out.err = NoErr /\ out.sys # Nil
           /\ \A nm \in WinV1Names : out.sys[1].V1[nm] = 0
     /\ (out.err # NoErr) <=> (out.first # NoErr /\ out.second # NoErr)

\* C22: on every build, when the kernel call behind the acquisition fails,
\* GetTCPInfo returns no record and the error it returns is the kernel's own
\* error value (for EAGAIN, EINVAL and ENOENT the package's value of that
\* name, which is that errno).
C22_ErrorsVerbatim ==
  /\ (out.op = "GetTCPInfo" /\ AtLeast(<<2, 6, 2>>) /\ out.primary # NoErr) =>
        (out.sys = Nil /\ out.err = out.primary)
  /\ (out.op = "DarwinGetTCPInfo" /\ out.primary # NoErr) =>
        (out.sys = Nil /\ out.err = out.primary)
  /\ (out.op = "WinGetTCPInfo" /\ out.first # NoErr /\ out.second # NoErr) =>
        (out.sys = Nil /\ out.err = out.second)

\* C29: for the same raw values the two windows Unpack functions give the
\* same state, state name, MSS, connection time, RTT, min RTT and counters,
\* and the connection time is ConnectionTimeMs milliseconds in nanoseconds.
C29_CommonFields ==
  out.op = "WinUnpack" =>
     /\ out.v0.State = out.v1.State /\ out.v0.StateName = out.v1.StateName
     /\ out.v0.RTT = out.v1.RTT /\ out.v0.RTTMin = out.v1.RTTMin
     /\ out.v0.C = out.v1.C
     /\ out.v0.ConnectedTimeNS = out.ms * 1000000
     /\ out.v1.ConnectedTimeNS = out.ms * 1000000

\* ---------------------------------------------------------------- repeated Close
\* C28: once a Close call has recorded ClosedAt, no later Close call changes
\* it, and the callback is invoked with Closed once at most, whatever the
\* connection is and whether or not the closed-state snapshot was stored.
C28_SecondClose ==
  [][hist.closeStarted >= 1 =>
        (w'.ClosedAt = w.ClosedAt /\ Count(reports', Closed) <= 1)]_vars

\* ---------------------------------------------------------------- order of the steps
\* C23: the callback is invoked when the snapshot attempt of its
\* gatherAndReport is over: a record the attempt got is already stored in the
\* Conn the callback is handed, for Opened in WrapConn and for Closed in
\* Close.  In Close, ClosedAt is recorded before the attempt and the report;
\* the attempt is made on an underlying connection that is not closed; and
\* the Close call closes the underlying connection only after its report:
\* while the first Close is in gatherAndReport nothing was reported with
\* Closed and the connection has not been closed by the wrapper, and when it
\* is about to close the connection its report has been made.
C23_StepOrder ==
  /\ hist.seen # <<>> =>
        LET s == hist.seen[1]
        IN /\ s.got => (s.hasInfo /\ ~s.underClosed)
           /\ s.state = Closed => s.stamped
           /\ s.state = Opened => ~s.stamped
  /\ \A t \in Threads :
        /\ pc[t] \in {"c_gather", "c_close"} => w.ClosedAt # 0
        /\ (pc[t] = "c_gather" /\ hist.closeStarted = 1) =>
              (Count(reports, Closed) = 0 /\ ~hist.lastClose.called)
        /\ (pc[t] = "c_close" /\ hist.closeStarted = 1) =>
              /\ ~hist.lastClose.called
              /\ w.reportStats = "fn" => Count(reports, Closed) = 1

\* C23 witness: a Close has recorded ClosedAt, got and stored the closed-state
\* snapshot and reported Closed, and has not yet closed the underlying
\* connection
C23_Witness ==
  /\ \E t \in Threads : pc[t] = "c_close"
  /\ hist.closeStarted = 1 /\ ~ncon.closed /\ w.ClosedAt # 0
  /\ hist.seen # <<>> /\ hist.seen[1].state = Closed
  /\ hist.seen[1].got /\ hist.seen[1].hasInfo
  /\ w.ClosedInfo # Nil /\ reports = <<Opened, Closed>>

\* ---------------------------------------------------------------- the registry mutex
\* the entries the running Collect has evicted
Evicted == {pull.acq[i].conn : i \in {j \in DOMAIN pull.acq : pull.acq[j].err # NoErr}}

\* C24: while a Collect holds the mutex the registry is the registry the
\* Collect began with, less the entries this Collect evicted: no Add and no
\* Remove has taken effect in between, and what is left to visit are entries
\* of that registry.
C24_Exclusive ==
  mu = "Collect" =>
     /\ DOMAIN conns = (DOMAIN pull.began) \ Evicted
     /\ \A c \in DOMAIN conns : conns[c] = pull.began[c]
     /\ todo \subseteq DOMAIN conns

\* C24 witness: a Collect over two entries has evicted the first and has the
\* second still to visit
C24_Witness ==
  /\ mu = "Collect" /\ Cardinality(DOMAIN pull.began) = 2
  /\ Len(pull.acq) = 1 /\ pull.acq[1].err # NoErr
  /\ todo # {} /\ DOMAIN conns = todo

\* ---------------------------------------------------------------- the capability flags
\* C25: after init and after every later run of adaptToKernelVersion, each
\* flag is true exactly when the kernel version is at least the flag's tier
\* version; hence a true flag has every lower tier's flag true, and on a
\* kernel older than 2.6.2 every flag is false.
C25_FlagsFollowVersion ==
  /\ \A i \in 1..Len(tcpInfoSizes) :
        kernelVersionIsAtLeast[tcpInfoSizes[i].Flag] = AtLeast(tcpInfoSizes[i].Version)
  /\ \A i, j \in 1..Len(tcpInfoSizes) :
        (j < i /\ kernelVersionIsAtLeast[tcpInfoSizes[i].Flag])
           => kernelVersionIsAtLeast[tcpInfoSizes[j].Flag]
  /\ ~AtLeast(<<2, 6, 2>>) => \A f \in TierNames : ~kernelVersionIsAtLeast[f]

\* C25 witness: adaptToKernelVersion has run for a kernel older than 2.6.2
\* after a run for a kernel that met a tier (the size of that run is still
\* there) and has cleared every flag
C25_Witness ==
  /\ out.op = "adaptToKernelVersion"
  /\ sizeOfRawTCPInfo # 0
  /\ ~AtLeast(<<2, 6, 2>>)
  /\ \A f \in TierNames : ~kernelVersionIsAtLeast[f]

\* ---------------------------------------------------------------- the Linux options
\* the bits set in an options byte, and the i-th of them from the lowest
SetBits(o) == {b \in 0..7 : (o \div 2^b) % 2 = 1}
NthBit(o, i) == CHOOSE b \in SetBits(o) : Cardinality({c \in SetBits(o) : c <= b}) = i

\* C26: Unpack gives two option sequences of the same length, one entry for
\* every bit set in the options byte, lowest bit first and of the same kind on
\* both sides; the WindowScale entry carries the send window on the transmit
\* side and the receive window on the receive side, every other entry zero.
C26_Options ==
  out.op = "Unpack" =>
     LET o == out.packed.options
         tx == out.sys.TxOptions
         rx == out.sys.RxOptions
     IN /\ Len(tx) = Cardinality(SetBits(o))
        /\ Len(rx) = Len(tx)
        /\ \A i \in 1..Len(tx) :
              /\ tx[i].Kind = tcpOptionsMap(2^NthBit(o, i))
              /\ rx[i].Kind = tx[i].Kind
              /\ IF NthBit(o, i) = 2
                 THEN /\ tx[i].Value = out.packed.v["snd_wnd"]
                      /\ rx[i].Value = out.packed.v["rcv_wnd"]
                 ELSE tx[i].Value = 0 /\ rx[i].Value = 0

\* C26 witness: Unpack of a record with every option bit set and different,
\* nonzero send and receive windows
C26_Witness ==
  /\ out.op = "Unpack" /\ out.packed.options = 255
  /\ Len(out.sys.TxOptions) = 8
  /\ out.sys.TxOptions[3].Kind = "WindowScale"
  /\ out.sys.TxOptions[3].Value # 0
  /\ out.sys.TxOptions[3].Value # out.sys.RxOptions[3].Value

\* ---------------------------------------------------------------- the stored descriptor
\* C27: every acquisition a Collect makes for an entry is made on the socket
\* of the entry's own connection: the descriptor the entry holds is, at that
\* moment, the descriptor of that connection and of no other, closed or not.
C27_OwnSocket ==
  \A i \in DOMAIN pull.acq : pull.acq[i].socket = pull.acq[i].conn

\* ---------------------------------------------------------------- termination of Collect
\* every entry the running Collect began with has been visited, once
VisitedOnce ==
  /\ Len(pull.acq) = Cardinality(DOMAIN pull.began)
  /\ \A c \in DOMAIN pull.began :
        Cardinality({i \in DOMAIN pull.acq : pull.acq[i].conn = c}) = 1

\* the loop of the running Collect is over
LoopDone == mu = "Collect" /\ todo = {} /\ VisitedOnce

\* C30: with a consumer that keeps receiving and an error callback that
\* returns, a Collect that has taken the mutex comes to the end of its loop
\* with every entry it began with visited exactly once, no entry is ever
\* visited twice, and from the end of the loop the mutex is released, after
\* which Add and Remove can proceed.
C30_Terminates ==
  /\ [](\A i, j \in DOMAIN pull.acq : pull.acq[i].conn = pull.acq[j].conn => i = j)
  /\ (mu = "Collect") ~> LoopDone
  /\ LoopDone ~> (mu = "free")

\* C30 witness: a Collect over two entries has come to the end of its loop
\* with one acquisition failed and one succeeded, and still holds the mutex
C30_Witness ==
  /\ LoopDone
  /\ Len(pull.acq) = 2
  /\ \E i, j \in DOMAIN pull.acq : pull.acq[i].err # NoErr /\ pull.acq[j].err = NoErr

====
